---- MODULE Spec2Model ----
(***************************************************************************)
(* Calculation tree: CalculationService (cache-aside reads, transactional  *)
(* writes with cache invalidation) over the Drizzle repository and an      *)
(* ICacheRepository backend.                                                *)
(***************************************************************************)
EXTENDS Integers, Sequences, FiniteSets, TLC

VARIABLES
    roots,      \* committed calculation_root rows, in insertion order
    ops,        \* committed calculation_operation rows, in insertion order
    store,      \* content of the cache backend: key -> stored value
    backend,    \* "memory" (MemoryCache) or "remote" (RedisCache / KVCache),
                \* wrapped in ResilientCacheWrapper
    callers,    \* how many calls the service is given at once, at most
    intact,     \* history: TRUE while every cache delete has taken effect and
                \* no write call has begun with a cache write of an earlier
                \* call still in flight
    inflight,   \* cache operations issued and not yet completed
    pc,         \* position of each caller inside its service call
    call,       \* the call each caller is running (method and input)
    loc,        \* locals of the running call
    log,        \* the collaborator calls the running / last call has made
    ret,        \* what the last call of each caller returned or raised
    nextId,     \* crypto.randomUUID(): the next fresh identifier
    now         \* the wall clock (new Date())

vars == <<roots, ops, store, backend, callers, intact, inflight, pc,
          call, loc, log, ret, nextId, now>>

----------------------------------------------------------------------------
(* Bounds of the model *)

\* fractional decimal digits the numeric columns keep (the schema keeps 10)
NumericScale == 1
\* integer decimal digits the numeric columns hold (the schema holds 20 - 10)
NumericIntDigits == 3
\* largest magnitude of a finite number (stands for Number.MAX_VALUE)
JsMaxValue == 2000
MaxRoots == 1
MaxOps == 2
\* cache writes that may be in flight with no caller waiting for them
MaxDetached == 1
MaxCallers == 2
MaxRemoteCallers == 1
\* the latest reading of the clock
MaxTime == 1

----------------------------------------------------------------------------
(* Numbers: a JavaScript number is NaN, +/-Infinity or a finite value n/d. *)

Abs(x) == IF x < 0 THEN -x ELSE x

RECURSIVE GCD(_, _)
GCD(a, b) == IF b = 0 THEN a ELSE GCD(b, a % b)

Norm(n, d) ==
    LET g == GCD(Abs(n), Abs(d))
        s == IF d < 0 THEN -1 ELSE 1
    IN  [k |-> "fin", n |-> (s * n) \div g, d |-> (s * d) \div g]

Fin(n) == [k |-> "fin", n |-> n, d |-> 1]
NaN == [k |-> "nan", n |-> 0, d |-> 1]
PosInf == [k |-> "inf", n |-> 1, d |-> 1]
NegInf == [k |-> "inf", n |-> -1, d |-> 1]
JsonNull == [k |-> "null", n |-> 0, d |-> 1]

Sign(x) == IF x.n < 0 THEN -1 ELSE IF x.n = 0 THEN 0 ELSE 1
InfOf(s) == IF s < 0 THEN NegInf ELSE PosInf
IsZero(x) == x.k = "fin" /\ x.n = 0
IsFinite(x) == x.k = "fin"

\* a finite result beyond the largest double becomes +/-Infinity
Overflow(x) ==
    IF Abs(x.n) > JsMaxValue * x.d THEN InfOf(x.n) ELSE x

Neg(x) == [x EXCEPT !.n = -x.n]

JsAdd(a, b) ==
    IF a.k = "nan" \/ b.k = "nan" THEN NaN
    ELSE IF a.k = "inf" /\ b.k = "inf" THEN (IF a.n = b.n THEN a ELSE NaN)
    ELSE IF a.k = "inf" THEN a
    ELSE IF b.k = "inf" THEN b
    ELSE Overflow(Norm(a.n * b.d + b.n * a.d, a.d * b.d))

JsSub(a, b) == JsAdd(a, Neg(b))

JsMul(a, b) ==
    IF a.k = "nan" \/ b.k = "nan" THEN NaN
    ELSE IF a.k = "inf" \/ b.k = "inf"
         THEN (IF Sign(a) * Sign(b) = 0 THEN NaN ELSE InfOf(Sign(a) * Sign(b)))
    ELSE Overflow(Norm(a.n * b.n, a.d * b.d))

\* only used with a divisor that is not 0
JsDiv(a, b) ==
    IF a.k = "nan" \/ b.k = "nan" THEN NaN
    ELSE IF a.k = "inf" /\ b.k = "inf" THEN NaN
    ELSE IF a.k = "inf" THEN InfOf(Sign(a) * Sign(b))
    ELSE IF b.k = "inf" THEN Fin(0)
    ELSE Overflow(Norm(a.n * b.d, a.d * b.n))

RECURSIVE Pow10(_)
Pow10(e) == IF e = 0 THEN 1 ELSE 10 * Pow10(e - 1)

\* n/d rounded to the nearest integer, halves away from zero
RoundDiv(n, d) ==
    LET q == (2 * Abs(n) + d) \div (2 * d)
    IN  IF n < 0 THEN -q ELSE q

\* value.toString() written into a numeric(precision, scale) column: [ok, v].
\* The column keeps a decimal of exactly `scale` fractional digits (n counts
\* units of 10^-scale), rounded halves away from zero; NaN is stored as NaN;
\* +/-Infinity and a value with too many integer digits are rejected
\* (ok = FALSE: numeric field overflow).
DbNumeric(x) ==
    IF x.k = "nan" THEN [ok |-> TRUE, v |-> NaN]
    ELSE IF x.k = "inf" THEN [ok |-> FALSE, v |-> x]
    ELSE LET m == RoundDiv(x.n * Pow10(NumericScale), x.d)
         IN  IF Abs(m) >= Pow10(NumericIntDigits + NumericScale)
             THEN [ok |-> FALSE, v |-> x]
             ELSE [ok |-> TRUE,
                   v |-> [k |-> "numeric", n |-> m, d |-> Pow10(NumericScale)]]

\* parseFloat of the text a numeric column returns
parseFloat(x) == IF x.k = "numeric" THEN Norm(x.n, x.d) ELSE x

----------------------------------------------------------------------------
(* Operator value object *)

OPERATORS == {"ADD", "SUBTRACT", "MULTIPLY", "DIVIDE"}

\* Operator.fromType / the Operator object wrapping a type
OperatorFromType(type) == [value |-> type]

\* Operator.create that takes the lowercase name of ADD for ADD
OperatorCreateLenient(value) ==
    IF value = "add" THEN [ok |-> TRUE, operator |-> [value |-> "ADD"]]
    ELSE IF value \notin OPERATORS
    THEN [ok |-> FALSE, operator |-> [value |-> value]]
    ELSE [ok |-> TRUE, operator |-> [value |-> value]]

\* Operator.create: [ok, operator]; ok = FALSE is the thrown "Invalid operator"
OperatorCreate(value) ==
    IF value \notin OPERATORS
    THEN [ok |-> FALSE, operator |-> [value |-> value]]
    ELSE [ok |-> TRUE, operator |-> [value |-> value]]

\* Operator.toString
OperatorToString(operator) == operator.value

\* isValidWith that lets every operand through
isValidWithAnything(operator, operand) == TRUE

\* Operator.isValidWith
isValidWith(operator, operand) ==
    ~(operator.value = "DIVIDE" /\ IsZero(operand))

\* calculate that divides without looking at the divisor
calculateUnguarded(operator, left, right) ==
    CASE operator.value = "ADD" -> [ok |-> TRUE, v |-> JsAdd(left, right)]
      [] operator.value = "SUBTRACT" -> [ok |-> TRUE, v |-> JsSub(left, right)]
      [] operator.value = "MULTIPLY" -> [ok |-> TRUE, v |-> JsMul(left, right)]
      [] operator.value = "DIVIDE" ->
            IF IsZero(right)
            THEN [ok |-> TRUE,
                  v |-> IF left.k = "nan" \/ IsZero(left) THEN NaN
                        ELSE InfOf(Sign(left))]
            ELSE [ok |-> TRUE, v |-> JsDiv(left, right)]

\* Operator.calculate: [ok, v]; ok = FALSE is the thrown "Division by zero"
calculate(operator, left, right) ==
    CASE operator.value = "ADD" -> [ok |-> TRUE, v |-> JsAdd(left, right)]
      [] operator.value = "SUBTRACT" -> [ok |-> TRUE, v |-> JsSub(left, right)]
      [] operator.value = "MULTIPLY" -> [ok |-> TRUE, v |-> JsMul(left, right)]
      [] operator.value = "DIVIDE" ->
            IF IsZero(right) THEN [ok |-> FALSE, v |-> NaN]
            ELSE [ok |-> TRUE, v |-> JsDiv(left, right)]

----------------------------------------------------------------------------
(* Identifiers, users, dates, entities *)

NullId == 0                     \* null / undefined parent reference
EmptyId == -1                   \* "", the one string that is falsy

\* if (id): an identifier that is neither undefined, null nor ""
Truthy(id) == id \notin {NullId, EmptyId}
UNDEFINED == "<undefined>"

\* the one signed-in user: id, display name (session.user.name) and the
\* username column the repository joins in
TheUser == [id |-> "u1", name |-> "Alice", username |-> "alice"]

Date(t) == [ty |-> "Date", t |-> t]
IsoString(t) == [ty |-> "iso", t |-> t]
\* new Date(x) for a Date or an ISO string
NewDate(x) == Date(x.t)

\* CalculationRoot.create: [ok, root]; ok = FALSE is "Value must be a finite number"
CalculationRootCreateUnchecked(input, id, t) ==
    [ok |-> TRUE, error |-> "",
     entity |-> [id |-> id, value |-> input.value, userId |-> input.userId,
                 username |-> input.username, createdAt |-> Date(t),
                 updatedAt |-> Date(t), operations |-> <<>>]]

CalculationRootCreate(input, id, t) ==
    IF ~IsFinite(input.value)
    THEN [ok |-> FALSE, error |-> "InvalidValue"]
    ELSE [ok |-> TRUE, error |-> "",
          entity |-> [id |-> id, value |-> input.value, userId |-> input.userId,
                      username |-> input.username, createdAt |-> Date(t),
                      updatedAt |-> Date(t), operations |-> <<>>]]

\* CalculationOperation.create
CalculationOperationCreate(input, parentValue, id, t) ==
    IF ~Truthy(input.parentRootId) /\ ~Truthy(input.parentOperationId)
    THEN [ok |-> FALSE, error |-> "MissingParent"]
    ELSE IF Truthy(input.parentRootId) /\ Truthy(input.parentOperationId)
    THEN [ok |-> FALSE, error |-> "AmbiguousParent"]
    ELSE IF ~isValidWith(input.operator, input.operand)
    THEN [ok |-> FALSE, error |-> "DivisionByZero"]
    ELSE [ok |-> TRUE, error |-> "",
          entity |-> [id |-> id,
                      parentRootId |-> input.parentRootId,
                      parentOperationId |-> input.parentOperationId,
                      operator |-> OperatorFromType(OperatorToString(input.operator)),
                      operand |-> input.operand,
                      result |-> calculate(input.operator, parentValue,
                                           input.operand).v,
                      userId |-> input.userId, username |-> input.username,
                      createdAt |-> Date(t), updatedAt |-> Date(t),
                      children |-> <<>>]]

\* CalculationOperation.toJSON (recursive over children)
RECURSIVE OperationToJSON(_)
OperationToJSON(op) ==
    [id |-> op.id, parentRootId |-> op.parentRootId,
     parentOperationId |-> op.parentOperationId,
     operator |-> OperatorToString(op.operator),
     operand |-> op.operand, result |-> op.result,
     userId |-> op.userId, username |-> op.username,
     createdAt |-> op.createdAt, updatedAt |-> op.updatedAt,
     children |-> [i \in 1..Len(op.children) |-> OperationToJSON(op.children[i])]]

\* CalculationRoot.toJSON
RootToJSON(root) ==
    [id |-> root.id, value |-> root.value, userId |-> root.userId,
     username |-> root.username, createdAt |-> root.createdAt,
     updatedAt |-> root.updatedAt,
     operations |-> [i \in 1..Len(root.operations) |->
                        OperationToJSON(root.operations[i])]]

\* a count of the direct operations only
countDirect(operations) == Len(operations)

\* CalculationRoot.getTotalOperationCount
RECURSIVE countRecursive(_)
countRecursive(operations) ==
    IF operations = <<>> THEN 0
    ELSE 1 + countRecursive(Head(operations).children)
           + countRecursive(Tail(operations))

getTotalOperationCount(root) == countRecursive(root.operations)

----------------------------------------------------------------------------
(* DrizzleCalculationRepository: rows and tree building *)

\* the permutations of a sequence of rows
RowOrders(rows) ==
    LET n == Len(rows)
        idx == {f \in [1..n -> 1..n] : \A i, j \in 1..n : f[i] = f[j] => i = j}
    IN  {[i \in 1..n |-> rows[f[i]]] : f \in idx}

\* ORDER BY created_at: every order of the rows that ascends in createdAt
\* (rows with equal timestamps come in an order the database chooses)
OrderByCreatedAt(rows) ==
    {s \in RowOrders(rows) :
        \A i \in 1..(Len(s) - 1) : s[i].createdAt.t <= s[i + 1].createdAt.t}

\* a query without ORDER BY, the rows coming as they were inserted
OrderAsInserted(rows) == {rows}

\* ORDER BY created_at DESC
OrderByCreatedAtDesc(rows) ==
    {s \in RowOrders(rows) :
        \A i \in 1..(Len(s) - 1) : s[i].createdAt.t >= s[i + 1].createdAt.t}

\* the user.username a LEFT JOIN on user_id yields (row.username ?? undefined)
JoinedUsername(userId) ==
    IF userId = TheUser.id THEN TheUser.username ELSE UNDEFINED

mapToRootEntity(row) ==
    [id |-> row.id, value |-> parseFloat(row.value), userId |-> row.userId,
     username |-> JoinedUsername(row.userId),
     createdAt |-> row.createdAt, updatedAt |-> row.updatedAt,
     operations |-> <<>>]

mapToOperationEntity(row) ==
    [id |-> row.id, parentRootId |-> row.parentRootId,
     parentOperationId |-> row.parentOperationId,
     operator |-> OperatorFromType(row.operator),
     operand |-> parseFloat(row.operand), result |-> parseFloat(row.result),
     userId |-> row.userId, username |-> JoinedUsername(row.userId),
     createdAt |-> row.createdAt, updatedAt |-> row.updatedAt,
     children |-> <<>>]

\* buildChildren that attaches no child to any operation
buildChildrenOfNobody(parentId, allOps) == <<>>

\* buildChildren inside buildOperationTree: opsMap.get(parentId), mapped
\* to entities with their own children, depth first
RECURSIVE buildChildren(_, _)
buildChildren(parentId, allOps) ==
    LET children == SelectSeq(allOps, LAMBDA op :
                        Truthy(op.parentOperationId)
                        /\ op.parentOperationId = parentId)
    IN  [i \in 1..Len(children) |->
            [mapToOperationEntity(children[i]) EXCEPT
                !.children = buildChildren(children[i].id, allOps)]]

buildOperationTree(directOps, allOps) ==
    [i \in 1..Len(directOps) |->
        [mapToOperationEntity(directOps[i]) EXCEPT
            !.children = buildChildren(directOps[i].id, allOps)]]

buildTrees(rootRows, operationRows) ==
    [i \in 1..Len(rootRows) |->
        [mapToRootEntity(rootRows[i]) EXCEPT
            !.operations = buildOperationTree(
                SelectSeq(operationRows, LAMBDA op :
                    Truthy(op.parentRootId) /\ op.parentRootId = rootRows[i].id),
                operationRows)]]

\* a pass that takes every operation whose parent is in the set for a new
\* one, whether or not the set has it already
RECURSIVE filterPassAlwaysNew(_, _, _, _)
filterPassAlwaysNew(allOps, i, belongsToRoot, foundNew) ==
    IF i > Len(allOps) THEN [set |-> belongsToRoot, foundNew |-> foundNew]
    ELSE LET op == allOps[i]
         IN  IF Truthy(op.parentOperationId)
                /\ op.parentOperationId \in belongsToRoot
             THEN filterPassAlwaysNew(allOps, i + 1,
                                      belongsToRoot \cup {op.id}, TRUE)
             ELSE filterPassAlwaysNew(allOps, i + 1, belongsToRoot, foundNew)

\* one pass of the while loop of filterOperationsForRoot over allOps[i..]:
\* [set, foundNew]
RECURSIVE filterPass(_, _, _, _)
filterPass(allOps, i, belongsToRoot, foundNew) ==
    IF i > Len(allOps) THEN [set |-> belongsToRoot, foundNew |-> foundNew]
    ELSE LET op == allOps[i]
         IN  IF Truthy(op.parentOperationId)
                /\ op.parentOperationId \in belongsToRoot
                /\ op.id \notin belongsToRoot
             THEN filterPass(allOps, i + 1, belongsToRoot \cup {op.id}, TRUE)
             ELSE filterPass(allOps, i + 1, belongsToRoot, foundNew)

RECURSIVE filterLoop(_, _)
filterLoop(allOps, belongsToRoot) ==
    LET pass == filterPass(allOps, 1, belongsToRoot, FALSE)
    IN  IF pass.foundNew THEN filterLoop(allOps, pass.set) ELSE pass.set

\* filterOperationsForRoot without the passes that find nested children
filterOperationsDirectOnly(rootId, allOps) ==
    SelectSeq(allOps, LAMBDA op : op.parentRootId = rootId)

filterOperationsForRoot(rootId, allOps) ==
    LET direct == {allOps[i].id : i \in {j \in 1..Len(allOps) :
                                            allOps[j].parentRootId = rootId}}
        belongsToRoot == filterLoop(allOps, direct)
    IN  SelectSeq(allOps, LAMBDA op : op.id \in belongsToRoot)

\* findRootById on a snapshot of the root table: a sequence of 0 or 1 rows
findRootById(rootRows, id) ==
    SelectSeq(rootRows, LAMBDA r : r.id = id)

\* findOperationById
findOperationById(operationRows, id) ==
    SelectSeq(operationRows, LAMBDA r : r.id = id)

\* the tree part of findRootByIdWithOperations, for the root row found and
\* the ordered operation rows
rootWithOperations(rootRow, operationRows) ==
    LET relevantOps == filterOperationsForRoot(rootRow.id, operationRows)
    IN  [mapToRootEntity(rootRow) EXCEPT
            !.operations = buildOperationTree(
                SelectSeq(relevantOps, LAMBDA op : op.parentRootId = rootRow.id),
                relevantOps)]

\* the row saveRoot inserts: [ok, row]; ok = FALSE when the insert is rejected
saveRootRow(root) ==
    LET value == DbNumeric(root.value)
    IN  [ok |-> value.ok,
         row |-> [id |-> root.id, value |-> value.v, userId |-> root.userId,
                  createdAt |-> root.createdAt, updatedAt |-> root.updatedAt]]

\* the row saveOperation inserts
saveOperationRow(operation) ==
    LET operand == DbNumeric(operation.operand)
        result == DbNumeric(operation.result)
        \* parent_root_id references calculation_root(id)
        referenced == \/ operation.parentRootId = NullId
                      \/ \E i \in 1..Len(roots) :
                            roots[i].id = operation.parentRootId
    IN  [ok |-> operand.ok /\ result.ok /\ referenced,
         row |-> [id |-> operation.id,
                  parentRootId |-> operation.parentRootId,
                  parentOperationId |-> operation.parentOperationId,
                  operator |-> OperatorToString(operation.operator),
                  operand |-> operand.v, result |-> result.v,
                  userId |-> operation.userId,
                  createdAt |-> operation.createdAt,
                  updatedAt |-> operation.updatedAt]]

----------------------------------------------------------------------------
(* Cache keys, TTLs, and what a cache backend stores *)

FULL_TREE == <<"calc:tree:full", NullId>>
ROOT_LIST == <<"calc:roots", NullId>>
ROOT(id) == <<"calc:root", id>>
ROOT_OPERATIONS(rootId) == <<"calc:root:ops", rootId>>
OPERATION(id) == <<"calc:op", id>>
OPERATION_CHILDREN(parentOpId) == <<"calc:op:children", parentOpId>>

TTL_FULL_TREE == 120
TTL_ROOT == 600
TTL_OPERATION == 600

\* JSON.stringify of a number: NaN and +/-Infinity become null
JsonNumber(x) == IF x.k = "fin" THEN x ELSE JsonNull

\* JSON.stringify of a Date: its ISO string
JsonDate(d) == IsoString(d.t)

\* JSON.parse(JSON.stringify(op)) for an operation record
RECURSIVE JsonOperation(_)
JsonOperation(op) ==
    [id |-> op.id, parentRootId |-> op.parentRootId,
     parentOperationId |-> op.parentOperationId, operator |-> op.operator,
     operand |-> JsonNumber(op.operand), result |-> JsonNumber(op.result),
     userId |-> op.userId, username |-> op.username,
     createdAt |-> JsonDate(op.createdAt), updatedAt |-> JsonDate(op.updatedAt),
     children |-> [i \in 1..Len(op.children) |-> JsonOperation(op.children[i])]]

\* JSON.parse(JSON.stringify(root)) for a root record
JsonRoot(root) ==
    [id |-> root.id, value |-> JsonNumber(root.value), userId |-> root.userId,
     username |-> root.username,
     createdAt |-> JsonDate(root.createdAt), updatedAt |-> JsonDate(root.updatedAt),
     operations |-> [i \in 1..Len(root.operations) |->
                        JsonOperation(root.operations[i])]]

\* What a later get returns for a value given to set. A cached value is a
\* sequence of records: the array under FULL_TREE, one record under ROOT(id)
\* or OPERATION(id). MemoryCache keeps the object itself; RedisCache and
\* KVCache keep JSON.stringify(value) and parse it back.
Stored(kind, key, value) ==
    IF kind = "memory" THEN value
    ELSE IF key[1] = "calc:op"
         THEN [i \in 1..Len(value) |-> JsonOperation(value[i])]
         ELSE [i \in 1..Len(value) |-> JsonRoot(value[i])]

NoStore == [key \in {} |-> [value |-> <<>>, ttl |-> 0]]

\* the store after set(key, value, ttl)
StoreSet(st, kind, key, value, ttl) ==
    [k \in DOMAIN st \cup {key} |->
        IF k = key THEN [value |-> Stored(kind, key, value), ttl |-> ttl]
        ELSE st[k]]

\* the store after the deletion of a set of keys
StoreDelete(st, keys) == [k \in DOMAIN st \ keys |-> st[k]]

----------------------------------------------------------------------------
(* CalculationService: reconstitution of entities from cached records *)

RECURSIVE reconstituteOperation(_)
reconstituteOperation(data) ==
    [id |-> data.id, parentRootId |-> data.parentRootId,
     parentOperationId |-> data.parentOperationId,
     operator |-> OperatorFromType(data.operator),
     operand |-> data.operand, result |-> data.result,
     userId |-> data.userId, username |-> data.username,
     createdAt |-> NewDate(data.createdAt), updatedAt |-> NewDate(data.updatedAt),
     children |-> [i \in 1..Len(data.children) |->
                      reconstituteOperation(data.children[i])]]

reconstituteTree(data) ==
    [id |-> data.id, value |-> data.value, userId |-> data.userId,
     username |-> data.username,
     createdAt |-> NewDate(data.createdAt), updatedAt |-> NewDate(data.updatedAt),
     operations |-> [i \in 1..Len(data.operations) |->
                        reconstituteOperation(data.operations[i])]]

reconstituteTrees(data) == [i \in 1..Len(data) |-> reconstituteTree(data[i])]

----------------------------------------------------------------------------
(* Callers, inputs, and the record of what a call did *)

Procs == 1..MaxCallers

\* the owner of a cache operation whose call is over and forgotten
Nobody == 0

\* values given to createRoot; zero and the infinities as well when calls
\* come one at a time over MemoryCache
RootValueInputs ==
    {Fin(100), NaN}
    \cup (IF callers = 1 /\ backend = "memory" THEN {Fin(0), PosInf, NegInf}
          ELSE {})

\* operator and operand given to createOperation
OperationInputs ==
    {<<"ADD", Fin(50)>>, <<"DIVIDE", Fin(3)>>, <<"DIVIDE", Fin(0)>>,
     <<"MULTIPLY", NaN>>}

\* an identifier no row has
MissingId == 99

NoCall ==
    [method |-> "none", id |-> NullId, value |-> Fin(0),
     parentRootId |-> NullId, parentOperationId |-> NullId,
     operator |-> "ADD", operand |-> Fin(0),
     userId |-> TheUser.id, username |-> TheUser.name]

NoLoc == [rows |-> <<>>, entity |-> <<>>, error |-> "", failed |-> FALSE,
          overlapped |-> FALSE]

NoRet == [status |-> "none", error |-> "", value |-> <<>>, hit |-> FALSE]

\* one collaborator call, as the service makes it
Ev(name) == [ev |-> name, keys |-> {}, value |-> <<>>, ttl |-> 0]
EvKeys(name, keys) == [ev |-> name, keys |-> keys, value |-> <<>>, ttl |-> 0]
EvSet(name, key, value, ttl) ==
    [ev |-> name, keys |-> {key}, value |-> value, ttl |-> ttl]

\* a cache operation in flight
SetOp(p, key, value, ttl, awaited) ==
    [p |-> p, kind |-> "set", key |-> key, value |-> value, ttl |-> ttl,
     awaited |-> awaited]
DeleteOp(p, key, awaited) ==
    [p |-> p, kind |-> "delete", key |-> key, value |-> <<>>, ttl |-> 0,
     awaited |-> awaited]

Detached == {o \in inflight : ~o.awaited}
Awaited(p) == {o \in inflight : o.awaited /\ o.p = p}

\* a call may start when its caller is idle and the detached cache writes
\* in flight are within the bound
\* The record of a finished call (call, loc, log, ret) is observation only:
\* it is dropped (Forget) before anything else happens.
NoneDone == \A q \in Procs : pc[q] # "done"

\* caller p is at this point of its call
At(p, where) == pc[p] = where /\ NoneDone

\* the calls that have started and not yet returned
Running == {q \in Procs : pc[q] # "idle"}

\* a call may start when its caller is idle (the lowest idle caller makes
\* it: which one does is of no consequence) and the calls under way are
\* fewer than the service is given at once
MayStart(p) ==
    /\ At(p, "idle")
    /\ \A q \in Procs : q < p => pc[q] # "idle"
    /\ Cardinality(Running) < callers

\* a read may start when, besides, the detached cache writes in flight
\* leave room for the one it may issue
MayStartRead(p) == MayStart(p) /\ Cardinality(Detached) < MaxDetached

\* the readings new Date() can give next
Clock == {now} \cup (IF now < MaxTime THEN {now + 1} ELSE {})

Started ==
    /\ roots = <<>>
    /\ ops = <<>>
    /\ store = NoStore
    /\ backend \in {"memory", "remote"}
    /\ intact = TRUE
    /\ inflight = {}
    /\ pc = [p \in Procs |-> "idle"]
    /\ call = [p \in Procs |-> NoCall]
    /\ loc = [p \in Procs |-> NoLoc]
    /\ log = [p \in Procs |-> <<>>]
    /\ ret = [p \in Procs |-> NoRet]
    /\ nextId = 1
    /\ now = 1

\* concurrent requests: as many as the bound for the backend allows
Init ==
    /\ Started
    /\ callers = IF backend = "memory" THEN MaxCallers ELSE MaxRemoteCallers

\* requests served one at a time
InitOneAtATime == Started /\ callers = 1

\* the call of p ends: it returns value, or raises error
Return(p, value, hit) ==
    /\ pc' = [pc EXCEPT ![p] = "done"]
    /\ ret' = [ret EXCEPT ![p] = [status |-> "ok", error |-> "",
                                  value |-> value, hit |-> hit]]

Raise(p, error) ==
    /\ pc' = [pc EXCEPT ![p] = "done"]
    /\ ret' = [ret EXCEPT ![p] = [status |-> "error", error |-> error,
                                  value |-> <<>>, hit |-> FALSE]]

\* the call c of p begins; it and the calls under way now overlap
Begin(p, c, first) ==
    /\ call' = [call EXCEPT ![p] = c]
    /\ pc' = [pc EXCEPT ![p] = first]
    /\ loc' = [q \in Procs |->
                  IF q = p THEN [NoLoc EXCEPT !.overlapped = (Running # {})]
                  ELSE IF q \in Running THEN [loc[q] EXCEPT !.overlapped = TRUE]
                  ELSE loc[q]]
    /\ log' = [log EXCEPT ![p] = <<>>]
    /\ ret' = [ret EXCEPT ![p] = NoRet]

Logged(p, events) == log' = [log EXCEPT ![p] = @ \o events]

\* a fire-and-forget cache.set that is never made
DetachedSetDropped(p, key, value, ttl) == UNCHANGED <<store, inflight>>

\* cache.set(key, value, ttl) that nobody awaits (fire-and-forget): MemoryCache
\* stores at once; a remote backend has the write in flight
DetachedSet(p, key, value, ttl) ==
    IF backend = "memory"
    THEN /\ store' = StoreSet(store, backend, key, value, ttl)
         /\ UNCHANGED inflight
    ELSE /\ inflight' = inflight \cup {SetOp(p, key, value, ttl, FALSE)}
         /\ UNCHANGED store

----------------------------------------------------------------------------
(* getFullTree *)

StartGetFullTree(p) ==
    /\ MayStartRead(p)
    /\ Begin(p, [NoCall EXCEPT !.method = "getFullTree"], "gft.get")
    /\ UNCHANGED <<roots, ops, store, backend, callers, intact, inflight, nextId, now>>

\* getFullTree that loads from the repository before it looks at the cache
GetFullTreeCacheGetAfterLoad(p) ==
    /\ At(p, "gft.get")
    /\ \/ /\ FULL_TREE \in DOMAIN store
          /\ Logged(p, <<Ev("repo.findAllRootsWithOperations"),
                         EvKeys("cache.get", {FULL_TREE})>>)
          /\ Return(p, reconstituteTrees(store[FULL_TREE].value), TRUE)
       \/ /\ FULL_TREE \notin DOMAIN store \/ backend = "remote"
          /\ Logged(p, <<EvKeys("cache.get", {FULL_TREE})>>)
          /\ pc' = [pc EXCEPT ![p] = "gft.roots"]
          /\ UNCHANGED ret
    /\ UNCHANGED <<roots, ops, store, backend, callers, intact, inflight,
                   call, loc, nextId, now>>

\* const cached = await this.cache.get(FULL_TREE); if (cached) return ...
GetFullTreeCacheGet(p) ==
    /\ At(p, "gft.get")
    /\ \/ /\ FULL_TREE \in DOMAIN store
          /\ Logged(p, <<EvKeys("cache.get", {FULL_TREE})>>)
          /\ Return(p, reconstituteTrees(store[FULL_TREE].value), TRUE)
       \/ /\ FULL_TREE \notin DOMAIN store
          /\ Logged(p, <<EvKeys("cache.get", {FULL_TREE})>>)
          /\ pc' = [pc EXCEPT ![p] = "gft.roots"]
          /\ UNCHANGED ret
       \/ \* the backend fails: the wrapper turns it into a miss
          /\ backend = "remote"
          /\ Logged(p, <<EvKeys("cache.get", {FULL_TREE})>>)
          /\ pc' = [pc EXCEPT ![p] = "gft.roots"]
          /\ UNCHANGED ret
    /\ UNCHANGED <<roots, ops, store, backend, callers, intact, inflight, call, loc,
                   nextId, now>>

\* findAllRootsWithOperations, first query: the roots, newest first
GetFullTreeSelectRoots(p) ==
    /\ At(p, "gft.roots")
    /\ Logged(p, <<Ev("repo.findAllRootsWithOperations")>>)
    /\ \/ \E rootRows \in OrderByCreatedAtDesc(roots) :
            /\ loc' = [loc EXCEPT ![p].rows = rootRows]
            /\ pc' = [pc EXCEPT ![p] = "gft.ops"]
            /\ UNCHANGED ret
       \/ /\ Raise(p, "PersistenceFailure")
          /\ UNCHANGED loc
    /\ UNCHANGED <<roots, ops, store, backend, callers, intact, inflight, call,
                   nextId, now>>

\* findAllRootsWithOperations that reads the roots again with the operations
GetFullTreeSelectOpsFresh(p) ==
    /\ At(p, "gft.ops")
    /\ \E rootRows \in OrderByCreatedAtDesc(roots),
          operationRows \in OrderByCreatedAt(ops) :
            LET trees == buildTrees(rootRows, operationRows)
                json == [i \in 1..Len(trees) |-> RootToJSON(trees[i])]
            IN  /\ DetachedSet(p, FULL_TREE, json, TTL_FULL_TREE)
                /\ Logged(p, <<EvSet("cache.set", FULL_TREE, json, TTL_FULL_TREE)>>)
                /\ Return(p, trees, FALSE)
    /\ UNCHANGED <<roots, ops, backend, callers, intact, call, loc,
                   nextId, now>>

\* second query: the operations; buildTrees; cacheTreesAsync; return trees
GetFullTreeSelectOps(p) ==
    /\ At(p, "gft.ops")
    /\ \/ \E operationRows \in OrderByCreatedAt(ops) :
            LET trees == buildTrees(loc[p].rows, operationRows)
                json == [i \in 1..Len(trees) |-> RootToJSON(trees[i])]
            IN  /\ DetachedSet(p, FULL_TREE, json, TTL_FULL_TREE)
                /\ Logged(p, <<EvSet("cache.set", FULL_TREE, json, TTL_FULL_TREE)>>)
                /\ Return(p, trees, FALSE)
       \/ /\ Raise(p, "PersistenceFailure")
          /\ UNCHANGED <<store, inflight, log>>
    /\ UNCHANGED <<roots, ops, backend, callers, intact, call, loc, nextId, now>>

----------------------------------------------------------------------------
(* getRootById *)

StartGetRootById(p) ==
    /\ MayStartRead(p)
    /\ \E id \in {roots[i].id : i \in 1..Len(roots)} \cup {MissingId} :
          Begin(p, [NoCall EXCEPT !.method = "getRootById", !.id = id], "grb.get")
    /\ UNCHANGED <<roots, ops, store, backend, callers, intact, inflight, nextId, now>>

\* cache.get on a backend without the wrapper: its failure reaches the caller
GetRootByIdCacheGetUnwrapped(p) ==
    /\ At(p, "grb.get")
    /\ Logged(p, <<EvKeys("cache.get", {ROOT(call[p].id)})>>)
    /\ LET key == ROOT(call[p].id) IN
       \/ /\ key \in DOMAIN store
          /\ Return(p, <<reconstituteTree(store[key].value[1])>>, TRUE)
       \/ /\ key \notin DOMAIN store
          /\ pc' = [pc EXCEPT ![p] = "grb.root"]
          /\ UNCHANGED ret
       \/ /\ backend = "remote"
          /\ Raise(p, "CacheFailure")
    /\ UNCHANGED <<roots, ops, store, backend, callers, intact, inflight, call, loc,
                   nextId, now>>

GetRootByIdCacheGet(p) ==
    /\ At(p, "grb.get")
    /\ LET key == ROOT(call[p].id) IN
       \/ /\ key \in DOMAIN store
          /\ Logged(p, <<EvKeys("cache.get", {key})>>)
          /\ Return(p, <<reconstituteTree(store[key].value[1])>>, TRUE)
       \/ /\ key \notin DOMAIN store
          /\ Logged(p, <<EvKeys("cache.get", {key})>>)
          /\ pc' = [pc EXCEPT ![p] = "grb.root"]
          /\ UNCHANGED ret
       \/ /\ backend = "remote"
          /\ Logged(p, <<EvKeys("cache.get", {key})>>)
          /\ pc' = [pc EXCEPT ![p] = "grb.root"]
          /\ UNCHANGED ret
    /\ UNCHANGED <<roots, ops, store, backend, callers, intact, inflight, call, loc,
                   nextId, now>>

\* getRootById that caches what it found also when it found nothing
GetRootByIdSelectRootCachingNull(p) ==
    /\ At(p, "grb.root")
    /\ LET rows == findRootById(roots, call[p].id) IN
       \/ /\ rows = <<>>
          /\ DetachedSet(p, ROOT(call[p].id), <<>>, TTL_ROOT)
          /\ Logged(p, <<Ev("repo.findRootByIdWithOperations"),
                         EvSet("cache.set", ROOT(call[p].id), <<>>, TTL_ROOT)>>)
          /\ Return(p, <<>>, FALSE)
          /\ UNCHANGED loc
       \/ /\ rows # <<>>
          /\ Logged(p, <<Ev("repo.findRootByIdWithOperations")>>)
          /\ loc' = [loc EXCEPT ![p].rows = rows]
          /\ pc' = [pc EXCEPT ![p] = "grb.ops"]
          /\ UNCHANGED <<ret, store, inflight>>
    /\ UNCHANGED <<roots, ops, backend, callers, intact, call, nextId, now>>

\* findRootByIdWithOperations, first query: findRootById
GetRootByIdSelectRoot(p) ==
    /\ At(p, "grb.root")
    /\ Logged(p, <<Ev("repo.findRootByIdWithOperations")>>)
    /\ LET rows == findRootById(roots, call[p].id) IN
       \/ /\ rows = <<>>
          /\ Return(p, <<>>, FALSE)
          /\ UNCHANGED loc
       \/ /\ rows # <<>>
          /\ loc' = [loc EXCEPT ![p].rows = rows]
          /\ pc' = [pc EXCEPT ![p] = "grb.ops"]
          /\ UNCHANGED ret
       \/ /\ Raise(p, "PersistenceFailure")
          /\ UNCHANGED loc
    /\ UNCHANGED <<roots, ops, store, backend, callers, intact, inflight, call,
                   nextId, now>>

\* second query: all operations; filter, build, cache.set(ROOT(id)), return
GetRootByIdSelectOps(p) ==
    /\ At(p, "grb.ops")
    /\ \/ \E operationRows \in OrderByCreatedAt(ops) :
            LET root == rootWithOperations(loc[p].rows[1], operationRows)
                json == <<RootToJSON(root)>>
            IN  /\ DetachedSet(p, ROOT(call[p].id), json, TTL_ROOT)
                /\ Logged(p, <<EvSet("cache.set", ROOT(call[p].id), json, TTL_ROOT)>>)
                /\ Return(p, <<root>>, FALSE)
       \/ /\ Raise(p, "PersistenceFailure")
          /\ UNCHANGED <<store, inflight, log>>
    /\ UNCHANGED <<roots, ops, backend, callers, intact, call, loc, nextId, now>>

----------------------------------------------------------------------------
(* Awaited cache calls of the write paths *)

\* what an awaited deleteMany(keys) can leave behind: every key deleted, or,
\* when a remote backend fails, only some of them (KVCache deletes key by
\* key) or none (RedisCache deletes in one command)
DeleteManyResults(keys) ==
    {[st |-> StoreDelete(store, keys), ok |-> TRUE]}
    \cup (IF backend = "remote"
          THEN {[st |-> StoreDelete(store, done), ok |-> FALSE] :
                    done \in (SUBSET keys) \ {keys}}
          ELSE {})

\* await this.cache.deleteMany(keys).catch(() => {})
AwaitDeleteMany(p, keys) ==
    \E r \in DeleteManyResults(keys) :
        /\ store' = r.st
        /\ Logged(p, <<EvKeys("cache.deleteMany", keys)>>)
        /\ loc' = [loc EXCEPT ![p].failed = @ \/ ~r.ok]
        /\ intact' = (intact /\ r.ok)

\* Promise.all([cache.set(key, value, ttl), cache.delete(FULL_TREE)]):
\* MemoryCache runs both at once, in this order; a remote backend has both
\* in flight and the caller waits
UpdateCache(p, key, value, ttl, waiting) ==
    /\ Logged(p, <<EvSet("cache.set", key, value, ttl),
                   EvKeys("cache.delete", {FULL_TREE})>>)
    /\ IF backend = "memory"
       THEN /\ store' = StoreDelete(StoreSet(store, backend, key, value, ttl),
                                    {FULL_TREE})
            /\ Return(p, loc[p].entity, FALSE)
            /\ UNCHANGED inflight
       ELSE /\ inflight' = inflight \cup {SetOp(p, key, value, ttl, TRUE),
                                          DeleteOp(p, FULL_TREE, TRUE)}
            /\ pc' = [pc EXCEPT ![p] = waiting]
            /\ UNCHANGED <<store, ret>>

\* a cache operation in flight completes: it takes effect, or the backend
\* fails, the wrapper swallows the failure and it has none.
CacheOpLands(o) ==
    /\ NoneDone
    /\ o \in inflight
    /\ inflight' = inflight \ {o}
    /\ \E ok \in BOOLEAN :
        /\ store' = IF ~ok THEN store
                    ELSE IF o.kind = "set"
                    THEN StoreSet(store, backend, o.key, o.value, o.ttl)
                    ELSE StoreDelete(store, {o.key})
        /\ loc' = IF o.awaited
                  THEN [loc EXCEPT ![o.p].failed = @ \/ ~ok]
                  ELSE loc
        /\ intact' = (intact /\ (ok \/ o.kind = "set"))
    /\ UNCHANGED <<roots, ops, backend, callers, pc, call, log, ret, nextId, now>>

\* the method returns without waiting for Promise.all to settle
AwaitSettlesAtOnce(p) ==
    /\ At(p, "cr.await") \/ At(p, "co.await")
    /\ inflight' = {IF o.p = p THEN [o EXCEPT !.awaited = FALSE] ELSE o :
                        o \in inflight}
    /\ Return(p, loc[p].entity, FALSE)
    /\ UNCHANGED <<roots, ops, store, backend, callers, intact, call,
                   loc, log, nextId, now>>

\* Promise.all(...).catch(() => {}) settles: the wrapper lets neither call
\* reject, so both are done; then the method returns
AwaitSettles(p) ==
    /\ At(p, "cr.await") \/ At(p, "co.await")
    /\ Awaited(p) = {}
    /\ inflight' = {IF o.p = p THEN [o EXCEPT !.awaited = FALSE] ELSE o :
                        o \in inflight}
    /\ Return(p, loc[p].entity, FALSE)
    /\ UNCHANGED <<roots, ops, store, backend, callers, intact, call, loc, log,
                   nextId, now>>

----------------------------------------------------------------------------
(* createRoot *)

Creating(method) ==
    Cardinality({q \in Procs : pc[q] \notin {"idle", "done"}
                                /\ call[q].method = method})

StartCreateRoot(p) ==
    /\ MayStart(p)
    /\ Len(roots) + Creating("createRoot") < MaxRoots
    /\ \E value \in RootValueInputs :
          Begin(p, [NoCall EXCEPT !.method = "createRoot", !.value = value],
                "cr.invalidate")
    /\ intact' = (intact /\ Detached = {})
    /\ UNCHANGED <<roots, ops, store, backend, callers, inflight, nextId, now>>

\* invalidateCacheForNewRoot
RootKeys == {ROOT_LIST, FULL_TREE}

CreateRootInvalidate(p) ==
    /\ At(p, "cr.invalidate")
    /\ AwaitDeleteMany(p, RootKeys)
    /\ pc' = [pc EXCEPT ![p] = "cr.tx"]
    /\ UNCHANGED <<roots, ops, backend, callers, inflight, call, ret, nextId, now>>

\* unitOfWork.transaction: CalculationRoot.create, saveRoot, commit
CreateRootTransaction(p) ==
    /\ At(p, "cr.tx")
    /\ \E t \in Clock :
        LET created == CalculationRootCreate(call[p], nextId, t)
            saved == saveRootRow(created.entity)
        IN  \/ /\ ~created.ok
               /\ Logged(p, <<Ev("tx.begin"), Ev("tx.rollback")>>)
               /\ loc' = [loc EXCEPT ![p].error = created.error]
               /\ pc' = [pc EXCEPT ![p] = "cr.catch"]
               /\ UNCHANGED <<roots, nextId, now>>
            \/ /\ created.ok /\ saved.ok
               /\ roots' = Append(roots, saved.row)
               /\ nextId' = nextId + 1
               /\ now' = t
               /\ Logged(p, <<Ev("tx.begin"), Ev("repo.saveRoot"), Ev("tx.commit")>>)
               /\ loc' = [loc EXCEPT ![p].entity = <<created.entity>>]
               /\ pc' = [pc EXCEPT ![p] = "cr.update"]
            \/ \* the insert or the commit fails
               /\ created.ok
               /\ now' = t
               /\ Logged(p, <<Ev("tx.begin"), Ev("repo.saveRoot"), Ev("tx.rollback")>>)
               /\ loc' = [loc EXCEPT ![p].error = "PersistenceFailure"]
               /\ pc' = [pc EXCEPT ![p] = "cr.catch"]
               /\ UNCHANGED <<roots, nextId>>
    /\ UNCHANGED <<ops, store, backend, callers, intact, inflight, call, ret>>

\* updateCacheAfterRootCreation
CreateRootUpdateCache(p) ==
    /\ At(p, "cr.update")
    /\ LET root == loc[p].entity[1]
       IN  UpdateCache(p, ROOT(root.id), <<RootToJSON(root)>>, TTL_ROOT, "cr.await")
    /\ UNCHANGED <<roots, ops, backend, callers, intact, call, loc, nextId, now>>

\* catch that rethrows without invalidating again
CreateRootCatchWithoutInvalidate(p) ==
    /\ At(p, "cr.catch")
    /\ Raise(p, loc[p].error)
    /\ UNCHANGED <<roots, ops, store, backend, callers, intact, inflight,
                   call, loc, log, nextId, now>>

\* catch: invalidateCacheForNewRoot again; throw error
CreateRootCatch(p) ==
    /\ At(p, "cr.catch")
    /\ AwaitDeleteMany(p, RootKeys)
    /\ Raise(p, loc[p].error)
    /\ UNCHANGED <<roots, ops, backend, callers, inflight, call, nextId, now>>

----------------------------------------------------------------------------
(* createOperation *)

RootIds == {roots[i].id : i \in 1..Len(roots)}
OperationIds == {ops[i].id : i \in 1..Len(ops)}

\* the parent references a caller may give: a root, an operation, an
\* identifier no row has, neither, or both; the other reference left out
\* or given as ""
ParentChoices ==
    {<<r, NullId>> : r \in RootIds \cup {MissingId}}
    \cup {<<NullId, o>> : o \in OperationIds \cup {MissingId}}
    \cup {<<r, EmptyId>> : r \in RootIds}
    \cup {<<EmptyId, o>> : o \in OperationIds}
    \cup {<<NullId, NullId>>, <<EmptyId, NullId>>, <<MissingId, MissingId>>}

\* the operator and operand tried with a parent choice: all of them, and
\* one when a reference is given as ""
OperationInputsWith(parent) ==
    IF EmptyId \in {parent[1], parent[2]} THEN {<<"ADD", Fin(50)>>}
    ELSE OperationInputs

\* the up-front validation of createOperation: "" when the input passes
ParentError(input) ==
    IF ~Truthy(input.parentRootId) /\ ~Truthy(input.parentOperationId)
    THEN "MissingParent"
    ELSE IF Truthy(input.parentRootId) /\ Truthy(input.parentOperationId)
    THEN "AmbiguousParent"
    ELSE ""

StartCreateOperation(p) ==
    /\ MayStart(p)
    /\ Len(ops) + Creating("createOperation") < MaxOps
    /\ \E parent \in ParentChoices : \E oi \in OperationInputsWith(parent) :
        LET input == [NoCall EXCEPT !.method = "createOperation",
                                    !.parentRootId = parent[1],
                                    !.parentOperationId = parent[2],
                                    !.operator = oi[1], !.operand = oi[2]]
        IN  IF ParentError(input) # ""
            THEN /\ call' = [call EXCEPT ![p] = input]
                 /\ loc' = [loc EXCEPT ![p] = NoLoc]
                 /\ log' = [log EXCEPT ![p] = <<>>]
                 /\ Raise(p, ParentError(input))
            ELSE Begin(p, input, "co.invalidate")
    /\ intact' = (intact /\ Detached = {})
    /\ UNCHANGED <<roots, ops, store, backend, callers, inflight, nextId, now>>

\* invalidateCacheForNewOperation that forgets the keys of the parent
OperationKeysOfFullTree(input) == {FULL_TREE}

\* the keys invalidateCacheForNewOperation deletes
OperationKeys(input) ==
    {FULL_TREE}
    \cup (IF Truthy(input.parentRootId)
          THEN {ROOT(input.parentRootId), ROOT_OPERATIONS(input.parentRootId)}
          ELSE {})
    \cup (IF Truthy(input.parentOperationId)
          THEN {OPERATION(input.parentOperationId),
                OPERATION_CHILDREN(input.parentOperationId)}
          ELSE {})

\* createOperation that goes to the transaction without invalidating
CreateOperationInvalidateSkipped(p) ==
    /\ At(p, "co.invalidate")
    /\ Logged(p, <<EvKeys("cache.deleteMany", OperationKeys(call[p]))>>)
    /\ pc' = [pc EXCEPT ![p] = "co.tx"]
    /\ UNCHANGED <<roots, ops, store, backend, callers, intact, inflight,
                   call, loc, ret, nextId, now>>

CreateOperationInvalidate(p) ==
    /\ At(p, "co.invalidate")
    /\ AwaitDeleteMany(p, OperationKeys(call[p]))
    /\ pc' = [pc EXCEPT ![p] = "co.tx"]
    /\ UNCHANGED <<roots, ops, backend, callers, inflight, call, ret, nextId, now>>

\* getParentValue taking a parent that is not there for one of value 0
getParentValueOrZero(input) ==
    IF Truthy(input.parentRootId)
    THEN LET rows == findRootById(roots, input.parentRootId)
         IN  [found |-> TRUE, error |-> "ParentRootNotFound",
              value |-> IF rows # <<>> THEN mapToRootEntity(rows[1]).value
                        ELSE Fin(0),
              ev |-> "repo.findRootById"]
    ELSE LET rows == findOperationById(ops, input.parentOperationId)
         IN  [found |-> TRUE, error |-> "ParentOperationNotFound",
              value |-> IF rows # <<>> THEN mapToOperationEntity(rows[1]).result
                        ELSE Fin(0),
              ev |-> "repo.findOperationById"]

\* getParentValue reading the operand of a parent operation, not its result
getParentValueOfOperand(input) ==
    IF Truthy(input.parentRootId)
    THEN LET rows == findRootById(roots, input.parentRootId)
         IN  [found |-> rows # <<>>, error |-> "ParentRootNotFound",
              value |-> IF rows # <<>> THEN mapToRootEntity(rows[1]).value ELSE NaN,
              ev |-> "repo.findRootById"]
    ELSE LET rows == findOperationById(ops, input.parentOperationId)
         IN  [found |-> rows # <<>>, error |-> "ParentOperationNotFound",
              value |-> IF rows # <<>> THEN mapToOperationEntity(rows[1]).operand
                        ELSE NaN,
              ev |-> "repo.findOperationById"]

\* getParentValue: [found, error, value, ev] on the committed rows
getParentValue(input) ==
    IF Truthy(input.parentRootId)
    THEN LET rows == findRootById(roots, input.parentRootId)
         IN  [found |-> rows # <<>>, error |-> "ParentRootNotFound",
              value |-> IF rows # <<>> THEN mapToRootEntity(rows[1]).value ELSE NaN,
              ev |-> "repo.findRootById"]
    ELSE LET rows == findOperationById(ops, input.parentOperationId)
         IN  [found |-> rows # <<>>, error |-> "ParentOperationNotFound",
              value |-> IF rows # <<>> THEN mapToOperationEntity(rows[1]).result
                        ELSE NaN,
              ev |-> "repo.findOperationById"]

\* the transaction up to the entity: getParentValue, Operator.create,
\* CalculationOperation.create (the identifier is drawn when the row is
\* inserted: nothing can observe it earlier)
CreateOperationResolveParent(p) ==
    /\ At(p, "co.tx")
    /\ \E t \in Clock :
        LET parent == getParentValue(call[p])
            operator == OperatorCreate(call[p].operator)
            created == CalculationOperationCreate(
                           [call[p] EXCEPT !.operator = operator.operator],
                           parent.value, NullId, t)
            failed(error) ==
                /\ Logged(p, <<Ev("tx.begin"), Ev(parent.ev), Ev("tx.rollback")>>)
                /\ loc' = [loc EXCEPT ![p].error = error]
                /\ pc' = [pc EXCEPT ![p] = "co.catch"]
                /\ UNCHANGED now
        IN  \/ failed("PersistenceFailure")
            \/ ~parent.found /\ failed(parent.error)
            \/ parent.found /\ ~operator.ok /\ failed("InvalidOperator")
            \/ parent.found /\ operator.ok /\ ~created.ok /\ failed(created.error)
            \/ /\ parent.found /\ operator.ok /\ created.ok
               /\ Logged(p, <<Ev("tx.begin"), Ev(parent.ev)>>)
               /\ loc' = [loc EXCEPT ![p].entity = <<created.entity>>]
               /\ pc' = [pc EXCEPT ![p] = "co.save"]
               /\ now' = t
    /\ UNCHANGED <<roots, ops, store, backend, callers, intact, inflight, call, ret, nextId>>

\* saveOperation on the repository outside the transaction: the row stays
\* when the transaction fails after the insert
CreateOperationSaveOutside(p) ==
    /\ At(p, "co.save")
    /\ LET operation == [loc[p].entity[1] EXCEPT !.id = nextId]
           saved == saveOperationRow(operation)
       IN  /\ saved.ok
           /\ ops' = Append(ops, saved.row)
           /\ nextId' = nextId + 1
           /\ \/ /\ Logged(p, <<Ev("repo.saveOperation"), Ev("tx.commit")>>)
                 /\ loc' = [loc EXCEPT ![p].entity = <<operation>>]
                 /\ pc' = [pc EXCEPT ![p] = "co.update"]
              \/ /\ Logged(p, <<Ev("repo.saveOperation"), Ev("tx.rollback")>>)
                 /\ loc' = [loc EXCEPT ![p].error = "PersistenceFailure"]
                 /\ pc' = [pc EXCEPT ![p] = "co.catch"]
    /\ UNCHANGED <<roots, store, backend, callers, intact, inflight, call, ret, now>>

\* saveOperation that waits while an earlier caller holds the same parent
\* between reading it and committing
CreateOperationSaveLocked(p) ==
    /\ At(p, "co.save")
    /\ \A q \in Procs : q < p =>
          ~(/\ pc[q] = "co.save"
            /\ call[q].parentRootId = call[p].parentRootId
            /\ call[q].parentOperationId = call[p].parentOperationId)
    /\ LET operation == [loc[p].entity[1] EXCEPT !.id = nextId]
           saved == saveOperationRow(operation)
       IN  \/ /\ saved.ok
              /\ ops' = Append(ops, saved.row)
              /\ nextId' = nextId + 1
              /\ Logged(p, <<Ev("repo.saveOperation"), Ev("tx.commit")>>)
              /\ loc' = [loc EXCEPT ![p].entity = <<operation>>]
              /\ pc' = [pc EXCEPT ![p] = "co.update"]
           \/ /\ Logged(p, <<Ev("repo.saveOperation"), Ev("tx.rollback")>>)
              /\ loc' = [loc EXCEPT ![p].error = "PersistenceFailure"]
              /\ pc' = [pc EXCEPT ![p] = "co.catch"]
              /\ UNCHANGED <<ops, nextId>>
    /\ UNCHANGED <<roots, store, backend, callers, intact, inflight, call, ret, now>>

\* saveOperation and the commit
CreateOperationSave(p) ==
    /\ At(p, "co.save")
    /\ LET operation == [loc[p].entity[1] EXCEPT !.id = nextId]
           saved == saveOperationRow(operation)
       IN  \/ /\ saved.ok
              /\ ops' = Append(ops, saved.row)
              /\ nextId' = nextId + 1
              /\ Logged(p, <<Ev("repo.saveOperation"), Ev("tx.commit")>>)
              /\ loc' = [loc EXCEPT ![p].entity = <<operation>>]
              /\ pc' = [pc EXCEPT ![p] = "co.update"]
           \/ /\ Logged(p, <<Ev("repo.saveOperation"), Ev("tx.rollback")>>)
              /\ loc' = [loc EXCEPT ![p].error = "PersistenceFailure"]
              /\ pc' = [pc EXCEPT ![p] = "co.catch"]
              /\ UNCHANGED <<ops, nextId>>
    /\ UNCHANGED <<roots, store, backend, callers, intact, inflight, call, ret, now>>

\* updateCacheAfterOperationCreation
CreateOperationUpdateCache(p) ==
    /\ At(p, "co.update")
    /\ LET operation == loc[p].entity[1]
       IN  UpdateCache(p, OPERATION(operation.id), <<OperationToJSON(operation)>>,
                       TTL_OPERATION, "co.await")
    /\ UNCHANGED <<roots, ops, backend, callers, intact, call, loc, nextId, now>>

\* catch: invalidateCacheForNewOperation again; throw error
CreateOperationCatch(p) ==
    /\ At(p, "co.catch")
    /\ AwaitDeleteMany(p, OperationKeys(call[p]))
    /\ Raise(p, loc[p].error)
    /\ UNCHANGED <<roots, ops, backend, callers, inflight, call, nextId, now>>

----------------------------------------------------------------------------

\* the record of the finished call of p is dropped
Forget(p) ==
    /\ pc[p] = "done"
    /\ pc' = [pc EXCEPT ![p] = "idle"]
    /\ call' = [call EXCEPT ![p] = NoCall]
    /\ loc' = [loc EXCEPT ![p] = NoLoc]
    /\ log' = [log EXCEPT ![p] = <<>>]
    /\ ret' = [ret EXCEPT ![p] = NoRet]
    /\ inflight' = {IF o.p = p THEN [o EXCEPT !.p = Nobody] ELSE o :
                        o \in inflight}
    /\ UNCHANGED <<roots, ops, store, backend, callers, intact, nextId, now>>

Next ==
    \/ \E p \in Procs :
        \/ StartGetFullTree(p)
        \/ GetFullTreeCacheGet(p)
        \/ GetFullTreeSelectRoots(p)
        \/ GetFullTreeSelectOps(p)
        \/ StartGetRootById(p)
        \/ GetRootByIdCacheGet(p)
        \/ GetRootByIdSelectRoot(p)
        \/ GetRootByIdSelectOps(p)
        \/ StartCreateRoot(p)
        \/ CreateRootInvalidate(p)
        \/ CreateRootTransaction(p)
        \/ CreateRootUpdateCache(p)
        \/ CreateRootCatch(p)
        \/ StartCreateOperation(p)
        \/ CreateOperationInvalidate(p)
        \/ CreateOperationResolveParent(p)
        \/ CreateOperationSave(p)
        \/ CreateOperationUpdateCache(p)
        \/ CreateOperationCatch(p)
        \/ AwaitSettles(p)
        \/ Forget(p)
    \/ \E o \in inflight : CacheOpLands(o)

Spec == Init /\ [][Next]_vars

SpecOneAtATime == InitOneAtATime /\ [][Next]_vars

----------------------------------------------------------------------------
(* ResilientCacheWrapper, called directly: the wrapped backend is store,    *)
(* the one caller is caller 1, log[1] holds the call made on the wrapped    *)
(* cache followed by the logger's warnings, ret[1] how the wrapper's call   *)
(* ended, loc[1] how the wrapped call ended                                 *)

WrapperCaller == 1

\* keys and prefixes the wrapper is called with
WrapperKeys == {FULL_TREE, ROOT(1), OPERATION(2), OPERATION_CHILDREN(2)}
WrapperPrefixes == {"calc:", "calc:root", "calc:op:"}

\* `${prefix}*` / key.startsWith(prefix) over the key formats of CacheKeys
KeyStartsWith(key, prefix) ==
    CASE prefix = "" -> TRUE
      [] prefix = "calc:" -> TRUE
      [] prefix = "calc:root" ->
            key[1] \in {"calc:roots", "calc:root", "calc:root:ops"}
      [] prefix = "calc:op:" -> key[1] \in {"calc:op", "calc:op:children"}
      [] OTHER -> FALSE

\* values the wrapper is given to set under a key
WrapperValues(key) ==
    IF key[1] = "calc:op"
    THEN {<<[id |-> 2, parentRootId |-> 1, parentOperationId |-> NullId,
             operator |-> "ADD", operand |-> Fin(50), result |-> NaN,
             userId |-> TheUser.id, username |-> TheUser.name,
             createdAt |-> Date(0), updatedAt |-> Date(0), children |-> <<>>]>>}
    ELSE IF key[1] = "calc:op:children" THEN {<<>>}
    ELSE {<<>>,
          <<[id |-> 1, value |-> NaN, userId |-> TheUser.id,
             username |-> TheUser.name, createdAt |-> Date(0),
             updatedAt |-> Date(0), operations |-> <<>>]>>}

\* the wrapped cache's get(key): the value under the key or null, or, on a
\* remote backend, an error. A result is <<>> for null and <<v>> for v.
InnerGet(st, kind, key) ==
    {[raised |-> FALSE, st |-> st,
      result |-> IF key \in DOMAIN st THEN <<st[key].value>> ELSE <<>>]}
    \cup (IF kind = "remote"
          THEN {[raised |-> TRUE, st |-> st, result |-> <<>>]}
          ELSE {})

\* the wrapped cache's set(key, value, ttl)
InnerSet(st, kind, key, value, ttl) ==
    {[raised |-> FALSE, st |-> StoreSet(st, kind, key, value, ttl),
      result |-> <<>>]}
    \cup (IF kind = "remote"
          THEN {[raised |-> TRUE, st |-> st, result |-> <<>>]}
          ELSE {})

\* the wrapped cache's delete(key), deleteMany(keys) and, over the keys a
\* prefix matches, invalidateByPrefix(prefix): a failing remote backend has
\* deleted some of the keys (KVCache) or none (RedisCache)
InnerDelete(st, kind, keys) ==
    {[raised |-> FALSE, st |-> StoreDelete(st, keys), result |-> <<>>]}
    \cup (IF kind = "remote"
          THEN {[raised |-> TRUE, st |-> StoreDelete(st, done),
                 result |-> <<>>] : done \in (SUBSET keys) \ {keys}}
               \cup {[raised |-> TRUE, st |-> st, result |-> <<>>]}
          ELSE {})

\* a wrapper's get that lets the failure of the wrapped cache through
ResilientGetRethrowing(inner) ==
    [raised |-> inner.raised, result |-> inner.result, warnings |-> <<>>]

\* ResilientCacheWrapper.get: try { return await inner.get(key) }
\* catch { logger.warn(...); return null }
ResilientGet(inner) ==
    IF inner.raised
    THEN [raised |-> FALSE, result |-> <<>>,
          warnings |-> <<"GET failed for key">>]
    ELSE [raised |-> FALSE, result |-> inner.result, warnings |-> <<>>]

\* ResilientCacheWrapper.set, delete, deleteMany, invalidateByPrefix:
\* try { await inner.op(...) } catch { logger.warn(message, error) }
ResilientVoid(inner, message) ==
    [raised |-> FALSE, result |-> <<>>,
     warnings |-> IF inner.raised THEN <<message>> ELSE <<>>]

\* logger.warn(message + what the call was about, error)
Warn(message, keys) ==
    [ev |-> "logger.warn", keys |-> keys, value |-> <<message>>, ttl |-> 0]

\* one call of a wrapper method by the caller: the call on the wrapped cache
\* (event inner, outcome innerOutcome), then what the wrapper makes of it
WrapperCall(method, event, innerOutcome, outcome) ==
    /\ pc[WrapperCaller] = "idle"
    /\ call' = [call EXCEPT ![WrapperCaller] = [NoCall EXCEPT !.method = method]]
    /\ store' = innerOutcome.st
    /\ loc' = [loc EXCEPT ![WrapperCaller] =
                  [NoLoc EXCEPT !.failed = innerOutcome.raised,
                                !.entity = innerOutcome.result]]
    /\ log' = [log EXCEPT ![WrapperCaller] =
                  <<event>> \o [i \in 1..Len(outcome.warnings) |->
                                   Warn(outcome.warnings[i], event.keys)]]
    /\ IF outcome.raised
       THEN Raise(WrapperCaller, "CacheFailure")
       ELSE Return(WrapperCaller, outcome.result, outcome.result # <<>>)
    /\ UNCHANGED <<roots, ops, backend, callers, intact, inflight, nextId, now>>

WrapperGet ==
    \E key \in WrapperKeys : \E inner \in InnerGet(store, backend, key) :
        WrapperCall("wrapper.get", EvKeys("cache.get", {key}), inner,
                    ResilientGet(inner))

WrapperSet ==
    \E key \in WrapperKeys : \E value \in WrapperValues(key) :
    \E ttl \in {TTL_FULL_TREE, TTL_ROOT} :
    \E inner \in InnerSet(store, backend, key, value, ttl) :
        WrapperCall("wrapper.set", EvSet("cache.set", key, value, ttl), inner,
                    ResilientVoid(inner, "SET failed for key"))

WrapperDelete ==
    \E key \in WrapperKeys : \E inner \in InnerDelete(store, backend, {key}) :
        WrapperCall("wrapper.delete", EvKeys("cache.delete", {key}), inner,
                    ResilientVoid(inner, "DELETE failed for key"))

WrapperDeleteMany ==
    \E keys \in SUBSET WrapperKeys :
    \E inner \in InnerDelete(store, backend, keys) :
        WrapperCall("wrapper.deleteMany", EvKeys("cache.deleteMany", keys),
                    inner, ResilientVoid(inner, "DELETE_MANY failed for keys"))

WrapperInvalidateByPrefix ==
    \E prefix \in WrapperPrefixes :
    \E inner \in InnerDelete(store, backend,
                             {k \in DOMAIN store : KeyStartsWith(k, prefix)}) :
        WrapperCall("wrapper.invalidateByPrefix",
                    [ev |-> "cache.invalidateByPrefix", keys |-> {},
                     value |-> <<prefix>>, ttl |-> 0],
                    inner, ResilientVoid(inner, "INVALIDATE_PREFIX failed for"))

InitWrapper == Started /\ callers = 1

NextWrapper ==
    \/ WrapperGet
    \/ WrapperSet
    \/ WrapperDelete
    \/ WrapperDeleteMany
    \/ WrapperInvalidateByPrefix
    \/ Forget(WrapperCaller)

SpecWrapper == InitWrapper /\ [][NextWrapper]_vars

----------------------------------------------------------------------------
(* The repository's deleteRoot, called while roots and operations are       *)
(* created through the service                                              *)

\* rows created before creation stops
MaxIds == 3

\* DELETE FROM calculation_root WHERE id = $1. The foreign key of
\* calculation_operation.parent_root_id is ON DELETE CASCADE, so the
\* statement deletes the operations whose parent_root_id is the root as
\* well; parent_operation_id references nothing.
DeleteRoot(id) ==
    /\ \E i \in 1..Len(roots) : roots[i].id = id
    /\ roots' = SelectSeq(roots, LAMBDA r : r.id # id)
    /\ ops' = SelectSeq(ops, LAMBDA o : o.parentRootId # id)
    /\ UNCHANGED <<store, backend, callers, intact, inflight, pc, call, loc,
                   log, ret, nextId, now>>

\* DELETE FROM calculation_operation WHERE id = $1. No foreign key
\* references calculation_operation.id, so the statement deletes this one row.
DeleteOperation(id) ==
    /\ \E i \in 1..Len(ops) : ops[i].id = id
    /\ ops' = SelectSeq(ops, LAMBDA o : o.id # id)
    /\ UNCHANGED <<roots, store, backend, callers, intact, inflight, pc, call,
                   loc, log, ret, nextId, now>>

NextDelete ==
    \/ \E p \in Procs :
        \/ nextId <= MaxIds /\ StartCreateRoot(p)
        \/ CreateRootInvalidate(p)
        \/ CreateRootTransaction(p)
        \/ CreateRootUpdateCache(p)
        \/ CreateRootCatch(p)
        \/ nextId <= MaxIds /\ StartCreateOperation(p)
        \/ CreateOperationInvalidate(p)
        \/ CreateOperationResolveParent(p)
        \/ CreateOperationSave(p)
        \/ CreateOperationUpdateCache(p)
        \/ CreateOperationCatch(p)
        \/ AwaitSettles(p)
        \/ Forget(p)
    \/ \E o \in inflight : CacheOpLands(o)
    \/ \E id \in {roots[i].id : i \in 1..Len(roots)} : DeleteRoot(id)
    \/ \E id \in {ops[i].id : i \in 1..Len(ops)} : DeleteOperation(id)

SpecDelete == InitOneAtATime /\ [][NextDelete]_vars

----------------------------------------------------------------------------
(* The repository's tree queries over the tables the program can leave      *)
(* behind: roots, operations on roots (also with parent_operation_id ""),   *)
(* operations on operations, and operations whose parent operation or whose *)
(* root was deleted                                                         *)

\* rows of the tables
MaxTableRoots == 2
MaxTableOps == 3

TableCaller == 1

\* the identifiers of the operations, in the order of their insertion, and
\* of an operation that was deleted
TableOperationId(i) == 10 + i
DeletedOperationId == TableOperationId(0)

TableRoot(id, t) ==
    saveRootRow(CalculationRootCreate([NoCall EXCEPT !.value = Fin(100)],
                                      id, t).entity).row

TableOperation(id, parent, t) ==
    [id |-> id, parentRootId |-> parent[1], parentOperationId |-> parent[2],
     operator |-> "ADD", operand |-> DbNumeric(Fin(50)).v,
     result |-> DbNumeric(Fin(150)).v, userId |-> TheUser.id,
     createdAt |-> Date(t), updatedAt |-> Date(t)]

\* the roots, in the order of their insertion, each created at some time
RootTables ==
    UNION {{[i \in 1..n |-> TableRoot(i, t[i])] : t \in [1..n -> 0..MaxTime]} :
           n \in 0..MaxTableRoots}

\* the parents the i-th operation inserted can have: a root of the table
\* (the foreign key of parent_root_id), alone or with "", or an operation
\* inserted before it, still there or deleted since
TableParents(rootRows, i) ==
    {<<r, e>> : r \in 1..Len(rootRows), e \in {NullId, EmptyId}}
    \cup {<<NullId, TableOperationId(j)>> : j \in 0..(i - 1)}

TableChoices(rootRows, n) ==
    {f \in [1..n -> (UNION {TableParents(rootRows, i) : i \in 1..MaxTableOps})
                    \X (0..MaxTime)] :
        \A i \in 1..n : f[i][1] \in TableParents(rootRows, i)}

OperationTables(rootRows) ==
    UNION {{[i \in 1..n |->
                TableOperation(TableOperationId(i), f[i][1], f[i][2])] :
            f \in TableChoices(rootRows, n)} : n \in 0..MaxTableOps}

InitTables ==
    /\ roots \in RootTables
    /\ ops \in OperationTables(roots)
    /\ store = NoStore
    /\ backend = "memory"
    /\ callers = 1
    /\ intact = TRUE
    /\ inflight = {}
    /\ pc = [p \in Procs |-> "idle"]
    /\ call = [p \in Procs |-> NoCall]
    /\ loc = [p \in Procs |-> NoLoc]
    /\ log = [p \in Procs |-> <<>>]
    /\ ret = [p \in Procs |-> NoRet]
    /\ nextId = 1
    /\ now = MaxTime

\* one query of the repository by the caller: the rows it read, and what
\* it returned
TableQuery(method, id, operationRows, value) ==
    /\ pc[TableCaller] = "idle"
    /\ call' = [call EXCEPT ![TableCaller] =
                   [NoCall EXCEPT !.method = method, !.id = id]]
    /\ loc' = [loc EXCEPT ![TableCaller] = [NoLoc EXCEPT !.rows = operationRows]]
    /\ log' = [log EXCEPT ![TableCaller] = <<Ev(method)>>]
    /\ Return(TableCaller, value, FALSE)
    /\ UNCHANGED <<roots, ops, store, backend, callers, intact, inflight,
                   nextId, now>>

\* findRootByIdWithOperations(id)
FindRootByIdWithOperations ==
    \E id \in {roots[i].id : i \in 1..Len(roots)} \cup {MissingId} :
        LET rows == findRootById(roots, id) IN
        IF rows = <<>>
        THEN TableQuery("repo.findRootByIdWithOperations", id, <<>>, <<>>)
        ELSE \E operationRows \in OrderByCreatedAt(ops) :
                TableQuery("repo.findRootByIdWithOperations", id, operationRows,
                           <<rootWithOperations(rows[1], operationRows)>>)

\* findAllRootsWithOperations()
FindAllRootsWithOperations ==
    \E rootRows \in OrderByCreatedAtDesc(roots),
       operationRows \in OrderByCreatedAt(ops) :
        TableQuery("repo.findAllRootsWithOperations", NullId, operationRows,
                   buildTrees(rootRows, operationRows))

\* getTotalOperationCount() of a root findAllRootsWithOperations built
GetTotalOperationCount ==
    \E rootRows \in OrderByCreatedAtDesc(roots),
       operationRows \in OrderByCreatedAt(ops) :
    \E i \in 1..Len(rootRows) :
        LET root == buildTrees(rootRows, operationRows)[i]
        IN  TableQuery("CalculationRoot.getTotalOperationCount", root.id,
                       operationRows, <<getTotalOperationCount(root)>>)

NextTables ==
    \/ FindRootByIdWithOperations
    \/ FindAllRootsWithOperations
    \/ GetTotalOperationCount
    \/ Forget(TableCaller)

SpecTables == InitTables /\ [][NextTables]_vars

----------------------------------------------------------------------------
(* The domain objects called directly: Operator and CalculationOperation.   *)
(* call[1] holds the arguments, ret[1] what the call returned or raised.    *)

DomainCaller == 1

\* numbers given as left, right, operand and parentValue
NumberInputs ==
    {Fin(0), Fin(3), Fin(-4), Norm(1, 2), Fin(JsMaxValue), NaN, PosInf, NegInf}

\* strings given to Operator.create
RawOperators == OPERATORS \cup {"add", "Divide", "", "PLUS", " ADD"}

\* one call on a domain object: its arguments and its outcome [ok, error, v]
DomainCall(c, outcome) ==
    /\ pc[DomainCaller] = "idle"
    /\ call' = [call EXCEPT ![DomainCaller] = c]
    /\ IF outcome.ok THEN Return(DomainCaller, outcome.v, FALSE)
       ELSE Raise(DomainCaller, outcome.error)
    /\ UNCHANGED <<roots, ops, store, backend, callers, intact, inflight, loc,
                   log, nextId, now>>

\* Operator.fromType(type).calculate(left, right)
OperatorCalculate ==
    \E type \in OPERATORS, left \in NumberInputs, right \in NumberInputs :
        LET c == calculate(OperatorFromType(type), left, right)
        IN  DomainCall([NoCall EXCEPT !.method = "Operator.calculate",
                                      !.operator = type, !.value = left,
                                      !.operand = right],
                       [ok |-> c.ok, error |-> "DivisionByZero", v |-> <<c.v>>])

\* Operator.fromType(type).isValidWith(operand)
OperatorIsValidWith ==
    \E type \in OPERATORS, operand \in NumberInputs :
        DomainCall([NoCall EXCEPT !.method = "Operator.isValidWith",
                                  !.operator = type, !.operand = operand],
                   [ok |-> TRUE, error |-> "",
                    v |-> <<isValidWith(OperatorFromType(type), operand)>>])

\* Operator.create(raw), and toString() of what it returned
OperatorCreateCall ==
    \E raw \in RawOperators :
        LET created == OperatorCreate(raw)
        IN  DomainCall([NoCall EXCEPT !.method = "Operator.create",
                                      !.operator = raw],
                       [ok |-> created.ok, error |-> "InvalidOperator",
                        v |-> <<OperatorToString(created.operator)>>])

\* parent references given to CalculationOperation.create: a root id, an
\* operation id, none, both, and "" in either place
DomainParents ==
    {<<1, NullId>>, <<NullId, 2>>, <<NullId, NullId>>, <<1, 2>>,
     <<1, EmptyId>>, <<EmptyId, 2>>, <<EmptyId, NullId>>, <<EmptyId, EmptyId>>}

\* CalculationOperation.create(input); crypto.randomUUID() and new Date()
\* give the identifier and the time
CalculationOperationCreateCall ==
    \E parent \in DomainParents, type \in {"ADD", "DIVIDE"},
       operand \in {Fin(0), Fin(3), NaN}, parentValue \in {Fin(0), Fin(-4)},
       t \in Clock :
        LET c == [NoCall EXCEPT !.method = "CalculationOperation.create",
                                !.parentRootId = parent[1],
                                !.parentOperationId = parent[2],
                                !.operator = type, !.operand = operand,
                                !.value = parentValue]
            created == CalculationOperationCreate(
                           [c EXCEPT !.operator = OperatorFromType(type)],
                           parentValue, nextId, t)
        IN  DomainCall(c, [ok |-> created.ok, error |-> created.error,
                           v |-> IF created.ok THEN <<created.entity>>
                                 ELSE <<>>])

InitDomain == Started /\ callers = 1 /\ backend = "memory"

NextDomain ==
    \/ OperatorCalculate
    \/ OperatorIsValidWith
    \/ OperatorCreateCall
    \/ CalculationOperationCreateCall
    \/ Forget(DomainCaller)

SpecDomain == InitDomain /\ [][NextDomain]_vars

----------------------------------------------------------------------------
(* MemoryCache called directly. store is its Map: key -> [value,            *)
(* expiresAt]; now is Date.now(), in seconds. inflight is not part of the   *)
(* cache: it is the caller's record of the sets it made and has not deleted *)
(* since, [key, value, at, ttl, seen], seen once a get came after the end   *)
(* of the entry's time to live.                                             *)

MemoryCaller == 1

\* ttlSeconds = 300
DEFAULT_TTL == 300

\* the times at which the cache is called
ClockReadings == {0, 1, 2, 300, 301}

\* keys, prefixes and time-to-live arguments (<<>>: none given) of the calls
MemoryKeys == {FULL_TREE, ROOT(1), ROOT_OPERATIONS(1)}
MemoryPrefixes == {"", "calc:", "calc:root"}
MemoryTtls == {<<>>, <<1>>}

\* values given to set: two for one of the keys
MemoryValues(key) == IF key[1] = "calc:root" THEN WrapperValues(key) ELSE {<<>>}

\* the time to live the caller counts on: 300 seconds when it gave none
CountedOn(ttl) == IF ttl = <<>> THEN 300 ELSE ttl[1]

\* MemoryCache.get at time t: [st, result], result <<>> for null
MemoryCacheGetEager(st, key, t) ==
    IF key \notin DOMAIN st THEN [st |-> st, result |-> <<>>]
    ELSE IF t >= st[key].expiresAt
    THEN [st |-> StoreDelete(st, {key}), result |-> <<>>]
    ELSE [st |-> st, result |-> <<st[key].value>>]

MemoryCacheGet(st, key, t) ==
    IF key \notin DOMAIN st THEN [st |-> st, result |-> <<>>]
    ELSE IF t > st[key].expiresAt
    THEN [st |-> StoreDelete(st, {key}), result |-> <<>>]
    ELSE [st |-> st, result |-> <<st[key].value>>]

\* MemoryCache.set(key, value, ttlSeconds = 300) at time t
MemoryCacheSet(st, key, value, ttl, t) ==
    [k \in DOMAIN st \cup {key} |->
        IF k = key
        THEN [value |-> value,
              expiresAt |-> t + (IF ttl = <<>> THEN DEFAULT_TTL ELSE ttl[1])]
        ELSE st[k]]

\* MemoryCache.delete, deleteMany
MemoryCacheDelete(st, key) == StoreDelete(st, {key})

MemoryCacheDeleteMany(st, keys) == StoreDelete(st, keys)

\* an invalidateByPrefix that clears the cache
MemoryCacheInvalidateAll(st, prefix) == StoreDelete(st, DOMAIN st)

\* MemoryCache.invalidateByPrefix
MemoryCacheInvalidateByPrefix(st, prefix) ==
    StoreDelete(st, {k \in DOMAIN st : KeyStartsWith(k, prefix)})

\* MemoryCache.size
MemoryCacheSize(st) == Cardinality(DOMAIN st)

\* one call on the cache by the caller: the call, the Map after it, what it
\* returned, and the caller's record after it
MemoryCall(method, event, st, result, made) ==
    /\ pc[MemoryCaller] = "idle"
    /\ call' = [call EXCEPT ![MemoryCaller] = [NoCall EXCEPT !.method = method]]
    /\ log' = [log EXCEPT ![MemoryCaller] = <<event>>]
    /\ store' = st
    /\ inflight' = made
    /\ Return(MemoryCaller, result, result # <<>>)
    /\ UNCHANGED <<roots, ops, backend, callers, intact, loc, nextId, now>>

\* the caller's record without the keys
Without(keys) == {m \in inflight : m.key \notin keys}

MemoryGet ==
    \E key \in MemoryKeys :
        LET got == MemoryCacheGet(store, key, now)
        IN  MemoryCall("memory.get", EvKeys("cache.get", {key}), got.st,
                       got.result,
                       {IF m.key = key /\ now > m.at + CountedOn(m.ttl)
                        THEN [m EXCEPT !.seen = TRUE] ELSE m : m \in inflight})

MemorySet ==
    \E key \in MemoryKeys : \E value \in MemoryValues(key) :
    \E ttl \in MemoryTtls :
        MemoryCall("memory.set",
                   [ev |-> "cache.set", keys |-> {key}, value |-> value,
                    ttl |-> ttl],
                   MemoryCacheSet(store, key, value, ttl, now), <<>>,
                   Without({key})
                   \cup {[key |-> key, value |-> value, at |-> now,
                          ttl |-> ttl, seen |-> FALSE]})

MemoryDelete ==
    \E key \in MemoryKeys :
        MemoryCall("memory.delete", EvKeys("cache.delete", {key}),
                   MemoryCacheDelete(store, key), <<>>, Without({key}))

MemoryDeleteMany ==
    \E keys \in SUBSET MemoryKeys :
        MemoryCall("memory.deleteMany", EvKeys("cache.deleteMany", keys),
                   MemoryCacheDeleteMany(store, keys), <<>>, Without(keys))

MemoryInvalidateByPrefix ==
    \E prefix \in MemoryPrefixes :
        MemoryCall("memory.invalidateByPrefix",
                   [ev |-> "cache.invalidateByPrefix", keys |-> {},
                    value |-> <<prefix>>, ttl |-> 0],
                   MemoryCacheInvalidateByPrefix(store, prefix), <<>>,
                   Without({k \in MemoryKeys : KeyStartsWith(k, prefix)}))

MemorySize ==
    MemoryCall("memory.size", Ev("cache.size"), store,
               <<MemoryCacheSize(store)>>, inflight)

\* time passes between two calls
MemoryTimePasses ==
    /\ pc[MemoryCaller] = "idle"
    /\ \E t \in ClockReadings : t > now /\ now' = t
    /\ UNCHANGED <<roots, ops, store, backend, callers, intact, inflight, pc,
                   call, loc, log, ret, nextId>>

\* the caller has what its call returned
MemoryReturned ==
    /\ pc[MemoryCaller] = "done"
    /\ pc' = [pc EXCEPT ![MemoryCaller] = "idle"]
    /\ call' = [call EXCEPT ![MemoryCaller] = NoCall]
    /\ log' = [log EXCEPT ![MemoryCaller] = <<>>]
    /\ ret' = [ret EXCEPT ![MemoryCaller] = NoRet]
    /\ UNCHANGED <<roots, ops, store, backend, callers, intact, inflight, loc,
                   nextId, now>>

InitMemory ==
    /\ roots = <<>>
    /\ ops = <<>>
    /\ store = NoStore
    /\ backend = "memory"
    /\ callers = 1
    /\ intact = TRUE
    /\ inflight = {}
    /\ pc = [p \in Procs |-> "idle"]
    /\ call = [p \in Procs |-> NoCall]
    /\ loc = [p \in Procs |-> NoLoc]
    /\ log = [p \in Procs |-> <<>>]
    /\ ret = [p \in Procs |-> NoRet]
    /\ nextId = 1
    /\ now = 0

NextMemory ==
    \/ MemoryGet
    \/ MemorySet
    \/ MemoryDelete
    \/ MemoryDeleteMany
    \/ MemoryInvalidateByPrefix
    \/ MemorySize
    \/ MemoryTimePasses
    \/ MemoryReturned

SpecMemory == InitMemory /\ [][NextMemory]_vars


----------------------------------------------------------------------------
(* The service over a cache that expires its entries, calls one at a time.  *)
(* The clock counts seconds; store[key].ttl is the time the backend will    *)
(* still keep the entry: what set was given, less the time passed since.    *)

\* the readings of the clock
ClockTimes == {1, 3, 122, 602}

\* a backend that keeps every entry for good
AgedNever(st, kind, d) == st

\* the store once d seconds more have passed. MemoryCache.get drops an
\* entry when Date.now() > expiresAt, so the entry is still returned at the
\* very end of its time; setex (RedisCache) and expirationTtl (KVCache)
\* keep an entry for less than ttl seconds more
Aged(st, kind, d) ==
    LET kept == {k \in DOMAIN st :
                    IF kind = "memory" THEN st[k].ttl - d >= 0
                    ELSE st[k].ttl - d > 0}
    IN  [k \in kept |-> [st[k] EXCEPT !.ttl = @ - d]]

\* time passes, while no caller is between asking the cache and its answer
\* or between building an operation and the commit
TimePasses ==
    /\ NoneDone
    /\ \A p \in Procs : pc[p] \notin {"gft.get", "grb.get", "co.save"}
    /\ \E t \in ClockTimes :
        /\ t > now
        /\ now' = t
        /\ store' = Aged(store, backend, t - now)
    /\ UNCHANGED <<roots, ops, backend, callers, intact, inflight, pc, call,
                   loc, log, ret, nextId>>

\* the calls made while the clock runs: reads of what may be there, a
\* createRoot of 100, and an addition of 50 on a root or on an operation
ClockedCall(c) ==
    /\ c.method = "getRootById" => c.id # MissingId
    /\ c.method = "createRoot" => c.value = Fin(100)
    /\ c.method = "createOperation" =>
          /\ c.operator = "ADD" /\ c.operand = Fin(50)
          /\ {c.parentRootId, c.parentOperationId}
                 \cap {MissingId, EmptyId} = {}

NextClock ==
    \/ \E p \in Procs :
        \/ StartGetFullTree(p)
        \/ GetFullTreeCacheGet(p)
        \/ GetFullTreeSelectRoots(p)
        \/ GetFullTreeSelectOps(p)
        \/ StartGetRootById(p) /\ ClockedCall(call'[p])
        \/ GetRootByIdCacheGet(p)
        \/ GetRootByIdSelectRoot(p)
        \/ GetRootByIdSelectOps(p)
        \/ StartCreateRoot(p) /\ ClockedCall(call'[p])
        \/ CreateRootInvalidate(p)
        \/ CreateRootTransaction(p)
        \/ CreateRootUpdateCache(p)
        \/ CreateRootCatch(p)
        \/ StartCreateOperation(p) /\ ClockedCall(call'[p])
        \/ CreateOperationInvalidate(p)
        \/ CreateOperationResolveParent(p)
        \/ CreateOperationSave(p)
        \/ CreateOperationUpdateCache(p)
        \/ CreateOperationCatch(p)
        \/ AwaitSettles(p)
        \/ Forget(p)
    \/ \E o \in inflight : CacheOpLands(o)
    \/ TimePasses

SpecClock == InitOneAtATime /\ [][NextClock]_vars

----------------------------------------------------------------------------
(* The unit of work called directly: transaction(fn), and transaction(fn)   *)
(* again on the unit of work the callback was given. loc.entity is the      *)
(* stack of the units of work of the callbacks under way, loc.rows the rows *)
(* saved so far, each with the transaction it was written on and the depth  *)
(* of the callback that wrote it.                                           *)

UowCaller == 1

\* transaction(fn) calls made inside one outermost transaction, rows saved
\* by it, and the identifiers drawn before the last transaction begins
MaxNested == 2
MaxSaves == 2
MaxUowIds == 4

\* the database transaction a unit of work is scoped to, as the log names it
Tx(id) == <<"tx", id>>

\* a transaction(fn) inside a callback that opens a transaction of its own
TransactionOfItsOwn(uow, fresh) == [tx |-> fresh]

\* TransactionUnitOfWork.transaction(fn): the unit of work fn is run on
TransactionUnitOfWorkTransaction(uow, fresh) == uow

\* the callers' position inside the callbacks
InCallback == pc[UowCaller] = "uow.fn"
Frames == loc[UowCaller].entity
Innermost == Frames[Len(Frames)]

\* the rows of a sequence of saves that were written on transaction tx
Written(saves, tx) ==
    LET on == SelectSeq(saves, LAMBDA w : w.tx = tx)
    IN  [i \in 1..Len(on) |-> on[i].row]

\* DrizzleUnitOfWork.transaction(fn): db.transaction begins, fn is given a
\* new TransactionUnitOfWork scoped to it
DrizzleUnitOfWorkTransaction ==
    /\ pc[UowCaller] = "idle"
    /\ nextId <= MaxUowIds
    /\ call' = [call EXCEPT ![UowCaller] =
                   [NoCall EXCEPT !.method = "uow.transaction", !.id = nextId]]
    /\ loc' = [loc EXCEPT ![UowCaller] =
                  [NoLoc EXCEPT !.entity = <<[tx |-> nextId]>>]]
    /\ log' = [log EXCEPT ![UowCaller] = <<EvKeys("tx.begin", {Tx(nextId)})>>]
    /\ pc' = [pc EXCEPT ![UowCaller] = "uow.fn"]
    /\ nextId' = nextId + 1
    /\ UNCHANGED <<roots, ops, store, backend, callers, intact, inflight, ret, now>>

\* a callback saves a root through uow.calculationRepository
UowSaveRoot ==
    /\ InCallback
    /\ Len(loc[UowCaller].rows) < MaxSaves
    /\ loc' = [loc EXCEPT ![UowCaller].rows =
                  Append(@, [row |-> TableRoot(nextId, now), tx |-> Innermost.tx,
                             depth |-> Len(Frames)])]
    /\ Logged(UowCaller, <<EvKeys("repo.saveRoot", {Tx(Innermost.tx)})>>)
    /\ nextId' = nextId + 1
    /\ UNCHANGED <<roots, ops, store, backend, callers, intact, inflight, pc,
                   call, ret, now>>

\* a callback calls transaction(fn) on the unit of work it was given
UowNestedTransaction ==
    /\ InCallback
    /\ Cardinality({i \in 1..Len(log[UowCaller]) :
                       log[UowCaller][i].ev = "uow.transaction"}) < MaxNested
    /\ LET inner == TransactionUnitOfWorkTransaction(Innermost, nextId) IN
       /\ loc' = [loc EXCEPT ![UowCaller].entity = Append(@, inner)]
       /\ Logged(UowCaller,
                 IF inner.tx = Innermost.tx THEN <<Ev("uow.transaction")>>
                 ELSE <<Ev("uow.transaction"),
                        EvKeys("tx.begin", {Tx(inner.tx)})>>)
       /\ nextId' = IF inner.tx = Innermost.tx THEN nextId ELSE nextId + 1
    /\ UNCHANGED <<roots, ops, store, backend, callers, intact, inflight, pc,
                   call, ret, now>>

\* the callback of a transaction(fn) made inside a callback ends, by
\* returning or by throwing to the callback around it; a transaction it
\* had of its own ends with it
UowNestedEnds ==
    /\ InCallback
    /\ Len(Frames) > 1
    /\ \E returns \in BOOLEAN :
        LET own == Innermost.tx # Frames[Len(Frames) - 1].tx IN
        /\ roots' = IF own /\ returns
                    THEN roots \o Written(loc[UowCaller].rows, Innermost.tx)
                    ELSE roots
        /\ Logged(UowCaller,
                  IF ~own THEN <<>>
                  ELSE IF returns THEN <<EvKeys("tx.commit", {Tx(Innermost.tx)})>>
                  ELSE <<EvKeys("tx.rollback", {Tx(Innermost.tx)})>>)
    /\ loc' = [loc EXCEPT ![UowCaller].entity = SubSeq(@, 1, Len(@) - 1)]
    /\ UNCHANGED <<ops, store, backend, callers, intact, inflight, pc, call,
                   ret, nextId, now>>

\* the outermost callback returns and db.transaction commits
UowCommits ==
    /\ InCallback
    /\ Len(Frames) = 1
    /\ roots' = roots \o Written(loc[UowCaller].rows, Innermost.tx)
    /\ Logged(UowCaller, <<EvKeys("tx.commit", {Tx(Innermost.tx)})>>)
    /\ Return(UowCaller, <<>>, FALSE)
    /\ UNCHANGED <<ops, store, backend, callers, intact, inflight, call, loc,
                   nextId, now>>

\* the outermost callback throws, or the commit fails: db.transaction rolls
\* back and the error goes to the caller
UowRollsBack ==
    /\ InCallback
    /\ Len(Frames) = 1
    /\ Logged(UowCaller, <<EvKeys("tx.rollback", {Tx(Innermost.tx)})>>)
    /\ Raise(UowCaller, "PersistenceFailure")
    /\ UNCHANGED <<roots, ops, store, backend, callers, intact, inflight, call,
                   loc, nextId, now>>

InitUnitOfWork == Started /\ callers = 1 /\ backend = "memory"

NextUnitOfWork ==
    \/ DrizzleUnitOfWorkTransaction
    \/ UowSaveRoot
    \/ UowNestedTransaction
    \/ UowNestedEnds
    \/ UowCommits
    \/ UowRollsBack
    \/ Forget(UowCaller)

SpecUnitOfWork == InitUnitOfWork /\ [][NextUnitOfWork]_vars

----------------------------------------------------------------------------
(* findRootByIdWithOperations step by step, on operation rows with any      *)
(* parent references. loc.rows is the result of the query of all            *)
(* operations; loc.entity holds the set of the fixed-point loop and the     *)
(* calls of buildChildren still to be made, each with its depth.            *)

BuildCaller == 1

\* rows of the operation table
MaxBuildOps == 3

\* the references a row may hold: to the root or not, and to no operation,
\* to a deleted one, to itself or to any other
AnyParents ==
    {<<r, o>> : r \in {NullId, 1},
                o \in {NullId} \cup {TableOperationId(j) : j \in 0..MaxBuildOps}}

\* the operation tables, all rows created at the same instant, so that the
\* query returns them in any order
AnyTables ==
    UNION {{[i \in 1..n |-> TableOperation(TableOperationId(i), f[i], 0)] :
            f \in [1..n -> AnyParents]} : n \in 0..MaxBuildOps}

InitBuild ==
    /\ roots = <<TableRoot(1, 0)>>
    /\ ops \in AnyTables
    /\ store = NoStore
    /\ backend = "memory"
    /\ callers = 1
    /\ intact = TRUE
    /\ inflight = {}
    /\ pc = [p \in Procs |-> "idle"]
    /\ call = [p \in Procs |-> NoCall]
    /\ loc = [p \in Procs |-> NoLoc]
    /\ log = [p \in Procs |-> <<>>]
    /\ ret = [p \in Procs |-> NoRet]
    /\ nextId = 1
    /\ now = MaxTime

\* the calls buildChildren(id) for the rows of a sequence, at a depth
CallsFor(rows, depth) == [i \in 1..Len(rows) |-> [id |-> rows[i].id, depth |-> depth]]

\* the root is found and all operations are read; the first pass takes the
\* operations placed on the root
FindRootStarts ==
    /\ pc[BuildCaller] = "idle"
    /\ \E operationRows \in OrderByCreatedAt(ops) :
        /\ call' = [call EXCEPT ![BuildCaller] =
                       [NoCall EXCEPT !.method = "repo.findRootByIdWithOperations",
                                      !.id = roots[1].id]]
        /\ loc' = [loc EXCEPT ![BuildCaller] =
              [NoLoc EXCEPT
                 !.rows = operationRows,
                 !.entity = <<[set |-> {operationRows[i].id :
                                           i \in {j \in 1..Len(operationRows) :
                                              operationRows[j].parentRootId
                                                  = roots[1].id}},
                               stack |-> <<>>]>>]]
    /\ log' = [log EXCEPT ![BuildCaller] = <<>>]
    /\ ret' = [ret EXCEPT ![BuildCaller] = NoRet]
    /\ pc' = [pc EXCEPT ![BuildCaller] = "fr.filter"]
    /\ UNCHANGED <<roots, ops, store, backend, callers, intact, inflight,
                   nextId, now>>

\* one turn of while (foundNew): a pass over all operations; when it found
\* nothing new the rows are filtered and buildOperationTree maps the
\* operations placed on the root
FilterWhile ==
    /\ pc[BuildCaller] = "fr.filter"
    /\ LET work == loc[BuildCaller].entity[1]
           rows == loc[BuildCaller].rows
           pass == filterPass(rows, 1, work.set, FALSE)
           relevantOps == SelectSeq(rows, LAMBDA op : op.id \in pass.set)
           directOps == SelectSeq(relevantOps,
                                  LAMBDA op : op.parentRootId = call[BuildCaller].id)
       IN  IF pass.foundNew
           THEN /\ loc' = [loc EXCEPT ![BuildCaller].entity =
                              <<[work EXCEPT !.set = pass.set]>>]
                /\ UNCHANGED pc
           ELSE /\ loc' = [loc EXCEPT ![BuildCaller].entity =
                              <<[work EXCEPT !.stack = CallsFor(directOps, 1)]>>]
                /\ pc' = [pc EXCEPT ![BuildCaller] = "fr.build"]
    /\ UNCHANGED <<roots, ops, store, backend, callers, intact, inflight, call,
                   log, ret, nextId, now>>

\* one call of buildChildren(parentId): it calls buildChildren for each of
\* the children opsMap holds for parentId. A call deeper than there are
\* rows repeats a row: the recursion has no end and the stack overflows.
BuildChildrenCall ==
    /\ pc[BuildCaller] = "fr.build"
    /\ loc[BuildCaller].entity[1].stack # <<>>
    /\ LET work == loc[BuildCaller].entity[1]
           relevantOps == SelectSeq(loc[BuildCaller].rows,
                                    LAMBDA op : op.id \in work.set)
           this == Head(work.stack)
           children == SelectSeq(relevantOps, LAMBDA op :
                           Truthy(op.parentOperationId)
                           /\ op.parentOperationId = this.id)
       IN  IF this.depth > Len(relevantOps)
           THEN /\ Raise(BuildCaller, "RangeError")
                /\ UNCHANGED loc
           ELSE /\ loc' = [loc EXCEPT ![BuildCaller].entity =
                              <<[work EXCEPT !.stack =
                                    CallsFor(children, this.depth + 1)
                                    \o Tail(work.stack)]>>]
                /\ UNCHANGED <<pc, ret>>
    /\ UNCHANGED <<roots, ops, store, backend, callers, intact, inflight, call,
                   log, nextId, now>>

\* every call of buildChildren has returned: the root is returned with its
\* operations
FindRootReturns ==
    /\ pc[BuildCaller] = "fr.build"
    /\ loc[BuildCaller].entity[1].stack = <<>>
    /\ Return(BuildCaller,
              <<rootWithOperations(roots[1], loc[BuildCaller].rows)>>, FALSE)
    /\ UNCHANGED <<roots, ops, store, backend, callers, intact, inflight, call,
                   loc, log, nextId, now>>

NextBuild ==
    \/ FindRootStarts
    \/ FilterWhile
    \/ BuildChildrenCall
    \/ FindRootReturns
    \/ Forget(BuildCaller)

\* the call, once made, runs on: nothing makes the repository wait
SpecBuild ==
    /\ InitBuild /\ [][NextBuild]_vars
    /\ WF_vars(FilterWhile) /\ WF_vars(BuildChildrenCall)
    /\ WF_vars(FindRootReturns)
----------------------------------------------------------------------------
(* Each persisted result is the parent's stored value combined with the    *)
(* operand, as the result column keeps it                                   *)

\* the stored value of the parent a row points to, read back as a number
StoredParentValue(row, rootRows, operationRows) ==
    IF Truthy(row.parentRootId)
    THEN parseFloat((CHOOSE r \in {rootRows[i] : i \in 1..Len(rootRows)} :
                        r.id = row.parentRootId).value)
    ELSE parseFloat((CHOOSE o \in {operationRows[i] : i \in 1..Len(operationRows)} :
                        o.id = row.parentOperationId).result)

\* operator.calculate(p, operand) for a row, from what the tables hold
Recalculated(row) ==
    calculate(OperatorFromType(row.operator),
              StoredParentValue(row, roots, ops), parseFloat(row.operand))

\* C1 as stated: every persisted operation's result equals
\* operator.calculate(p, operand), p being the stored value of its parent
\* root or the stored result of its parent operation.
C1_ResultIsCalculate ==
    \A i \in 1..Len(ops) :
        /\ Recalculated(ops[i]).ok
        /\ parseFloat(ops[i].result) = Recalculated(ops[i]).v

\* the step that commits the operation of caller p
Commits(p) == pc[p] = "co.save" /\ pc'[p] = "co.update"

C1_Step ==
    /\ Len(roots') >= Len(roots) /\ Len(ops') >= Len(ops)
    /\ \A i \in 1..Len(roots) : roots'[i] = roots[i]
    /\ \A i \in 1..Len(ops) : ops'[i] = ops[i]
    /\ \A p \in Procs : Commits(p) =>
          /\ Len(ops') = Len(ops) + 1
          /\ LET row == ops'[Len(ops')]
                 c == calculate(OperatorFromType(row.operator),
                                StoredParentValue(row, roots', ops'),
                                call[p].operand)
             IN  /\ row.parentRootId = call[p].parentRootId
                 /\ row.parentOperationId = call[p].parentOperationId
                 /\ row.operator = call[p].operator
                 /\ c.ok /\ DbNumeric(c.v).ok
                 /\ row.result = DbNumeric(c.v).v

\* C1, amended: the result persisted for an operation is
\* operator.calculate(p, operand) rounded to the fractional digits the
\* result column keeps, p being the stored value of its parent root or the
\* stored result of its parent operation and operand the one the caller
\* gave; no later call changes or removes a persisted row.
C1_ResultIsRoundedCalculate == [][C1_Step]_vars

\* a division whose quotient the column cannot keep exactly has been
\* persisted, and an operation has been computed from its stored result
C1_RoundedParent ==
    \E i, j \in 1..Len(ops) :
        /\ ops[j].parentOperationId = ops[i].id
        /\ parseFloat(ops[i].result) # Recalculated(ops[i]).v

----------------------------------------------------------------------------
(* What getFullTree returns against what is persisted *)

\* caller p has just returned from a successful call of the method
Returned(p, method) ==
    pc[p] = "done" /\ call[p].method = method /\ ret[p].status = "ok"

\* the operations of a returned forest, each with the node it hangs under
RECURSIVE FlatOperations(_, _)
FlatOperations(operations, under) ==
    IF operations = <<>> THEN <<>>
    ELSE <<[id |-> Head(operations).id, under |-> under]>>
         \o FlatOperations(Head(operations).children,
                           <<"operation", Head(operations).id>>)
         \o FlatOperations(Tail(operations), under)

\* the root a persisted operation row descends from
RECURSIVE RootOfRow(_)
RootOfRow(row) ==
    IF Truthy(row.parentRootId) THEN row.parentRootId
    ELSE RootOfRow(CHOOSE o \in {ops[i] : i \in 1..Len(ops)} :
                      o.id = row.parentOperationId)

\* the node a persisted operation row names as its parent
ParentOfRow(row) ==
    IF Truthy(row.parentRootId) THEN <<"root", row.parentRootId>>
    ELSE <<"operation", row.parentOperationId>>

\* forest holds exactly the persisted roots, every persisted operation once
\* and directly under its parent, and each root counts its operations
ForestIsPersisted(forest) ==
    /\ Len(forest) = Len(roots)
    /\ \A r \in 1..Len(roots) : \E i \in 1..Len(forest) :
          /\ forest[i].id = roots[r].id
          /\ forest[i].value = parseFloat(roots[r].value)
          /\ LET flat == FlatOperations(forest[i].operations,
                                        <<"root", forest[i].id>>)
                 mine == {o \in 1..Len(ops) : RootOfRow(ops[o]) = roots[r].id}
             IN  /\ Len(flat) = Cardinality(mine)
                 /\ \A o \in mine : \E j \in 1..Len(flat) :
                       /\ flat[j].id = ops[o].id
                       /\ flat[j].under = ParentOfRow(ops[o])
                 /\ getTotalOperationCount(forest[i]) = Cardinality(mine)

----------------------------------------------------------------------------
(* The read paths: cache hit, cache miss, round trip through the cache *)

\* the calls a service method makes on the unit of work and its repository
RepositoryCalls ==
    {"tx.begin", "tx.commit", "tx.rollback", "repo.findAllRootsWithOperations",
     "repo.findRootByIdWithOperations", "repo.findRootById",
     "repo.findOperationById", "repo.saveRoot", "repo.saveOperation"}

\* the key a read call looks up
ReadKey(c) == IF c.method = "getFullTree" THEN FULL_TREE ELSE ROOT(c.id)

\* C3: a read whose cache.get returned a value (getFullTree under
\* FULL_TREE, getRootById under ROOT(id)) returns the entities rebuilt from
\* that value and has made no call on the repository or the unit of work.
C3_HitTouchesNoRepository ==
    \A p \in Procs :
        pc[p] = "done" /\ ret[p].hit =>
            /\ ret[p].status = "ok"
            /\ log[p] = <<EvKeys("cache.get", {ReadKey(call[p])})>>
            /\ \A i \in 1..Len(log[p]) : log[p][i].ev \notin RepositoryCalls
            /\ ReadKey(call[p]) \in DOMAIN store
            /\ ret[p].value =
                  IF call[p].method = "getFullTree"
                  THEN reconstituteTrees(store[FULL_TREE].value)
                  ELSE <<reconstituteTree(store[ROOT(call[p].id)].value[1])>>

\* getRootById has been answered from the cache with a root that has an
\* operation, and getFullTree likewise
C3_BothHit ==
    \E p \in Procs :
        /\ pc[p] = "done" /\ ret[p].hit
        /\ Len(ret[p].value) = 1
        /\ Len(ret[p].value[1].operations) > 0
        /\ call[p].method = "getRootById"
        /\ FULL_TREE \in DOMAIN store

\* the last call a caller has made on a collaborator
LastCall(p) == log[p][Len(log[p])]

\* caller p has just returned from a read that missed the cache and loaded
\* something
MissReturned(p) ==
    /\ pc[p] = "done" /\ ret[p].status = "ok" /\ ~ret[p].hit
    /\ call[p].method \in {"getFullTree", "getRootById"}
    /\ call[p].method = "getRootById" => ret[p].value # <<>>

\* the records of the entities a read returned
RecordsOf(value) == [i \in 1..Len(value) |-> RootToJSON(value[i])]

\* C4 as stated: the forest a getFullTree cache miss returns equals, field
\* by field, the forest a getFullTree hit rebuilds from the FULL_TREE
\* entry that miss wrote.
C4_HitEqualsMiss ==
    \A p \in Procs :
        MissReturned(p) /\ call[p].method = "getFullTree" =>
            reconstituteTrees(Stored(backend, FULL_TREE, LastCall(p).value))
                = ret[p].value

\* C5: a read that misses makes one repository call
\* (findAllRootsWithOperations, or findRootByIdWithOperations with a root
\* found), returns what it loaded, and has started, without waiting for it,
\* a cache.set of the loaded records under FULL_TREE with TTL 120 s, or
\* under ROOT(id) with the longer TTL 600 s; the call has returned before
\* the set can fail.
C5_MissLoadsAndCaches ==
    /\ TTL_FULL_TREE = 120 /\ TTL_ROOT = 600
    /\ \A p \in Procs :
        MissReturned(p) =>
            LET full == call[p].method = "getFullTree"
                key == ReadKey(call[p])
                ttl == IF full THEN TTL_FULL_TREE ELSE TTL_ROOT
                records == RecordsOf(ret[p].value)
            IN  /\ log[p] =
                      <<EvKeys("cache.get", {key}),
                        Ev(IF full THEN "repo.findAllRootsWithOperations"
                           ELSE "repo.findRootByIdWithOperations"),
                        EvSet("cache.set", key, records, ttl)>>
                /\ \E operationRows \in OrderByCreatedAt(ops) :
                      ret[p].value =
                          IF full THEN buildTrees(loc[p].rows, operationRows)
                          ELSE <<rootWithOperations(loc[p].rows[1], operationRows)>>
                /\ IF backend = "memory"
                   THEN /\ key \in DOMAIN store
                        /\ store[key] = [value |-> records, ttl |-> ttl]
                   ELSE SetOp(p, key, records, ttl, FALSE) \in inflight

\* over a remote backend getRootById has returned a root with an operation
\* while its cache.set is still in flight
C5_ReturnedBeforeSet ==
    \E p \in Procs :
        /\ MissReturned(p) /\ call[p].method = "getRootById"
        /\ backend = "remote"
        /\ Len(ret[p].value[1].operations) > 0
        /\ \E o \in inflight : o.p = p /\ ~o.awaited /\ o.kind = "set"

----------------------------------------------------------------------------
(* The write paths: what they do to the cache, and in which order *)

\* the cache calls issued by p that have not completed
Unfinished(p) == {o \in inflight : o.p = p}

\* what a successful createRoot of this root does, in order
CreateRootCalls(root) ==
    <<EvKeys("cache.deleteMany", {ROOT_LIST, FULL_TREE}),
      Ev("tx.begin"), Ev("repo.saveRoot"), Ev("tx.commit"),
      EvSet("cache.set", ROOT(root.id), <<RootToJSON(root)>>, TTL_ROOT),
      EvKeys("cache.delete", {FULL_TREE})>>

\* no createRoot has called cache.set with the key FULL_TREE
NoFullTreeWrite ==
    \A p \in Procs : call[p].method = "createRoot" =>
        \A i \in 1..Len(log[p]) :
            log[p][i].ev = "cache.set" => FULL_TREE \notin log[p][i].keys

\* C6 as stated: a successful createRoot has called, in this order,
\* deleteMany of {ROOT_LIST, FULL_TREE}, the transaction (begin, saveRoot,
\* commit), then set of ROOT(newId) to the new root's record and delete of
\* FULL_TREE, and both of these have completed when it returns; createRoot
\* never sets FULL_TREE.
C6_CreateRootOrder ==
    /\ NoFullTreeWrite
    /\ \A p \in Procs : Returned(p, "createRoot") =>
          /\ log[p] = CreateRootCalls(ret[p].value[1])
          /\ \E i \in 1..Len(roots) : roots[i].id = ret[p].value[1].id
          /\ Unfinished(p) = {}

\* createRoot has returned over a remote backend with the new root cached
\* under ROOT(newId) and both cache calls completed
C6_CreateRootDone ==
    \E p \in Procs :
        /\ Returned(p, "createRoot") /\ backend = "remote"
        /\ Unfinished(p) = {} /\ ~loc[p].failed
        /\ ROOT(ret[p].value[1].id) \in DOMAIN store
        /\ FULL_TREE \notin DOMAIN store

\* the keys C7 names for the parent of an input
ParentKeys(c) ==
    IF Truthy(c.parentRootId)
    THEN {FULL_TREE, ROOT(c.parentRootId), ROOT_OPERATIONS(c.parentRootId)}
    ELSE {FULL_TREE, OPERATION(c.parentOperationId),
          OPERATION_CHILDREN(c.parentOperationId)}

\* what a successful createOperation does, in order
CreateOperationCalls(c, operation) ==
    <<EvKeys("cache.deleteMany", ParentKeys(c)),
      Ev("tx.begin"),
      Ev(IF Truthy(c.parentRootId) THEN "repo.findRootById"
         ELSE "repo.findOperationById"),
      Ev("repo.saveOperation"), Ev("tx.commit"),
      EvSet("cache.set", OPERATION(operation.id),
            <<OperationToJSON(operation)>>, TTL_OPERATION),
      EvKeys("cache.delete", {FULL_TREE})>>

\* C7 as stated: a successful createOperation has called, in this order,
\* one deleteMany with exactly FULL_TREE, ROOT(p), ROOT_OPERATIONS(p) for a
\* parent root p or FULL_TREE, OPERATION(p), OPERATION_CHILDREN(p) for a
\* parent operation p, the transaction, then set of OPERATION(newId) to the
\* new operation's record and delete of FULL_TREE, and both of these have
\* completed when it returns.
C7_CreateOperationOrder ==
    \A p \in Procs : Returned(p, "createOperation") =>
        /\ log[p] = CreateOperationCalls(call[p], ret[p].value[1])
        /\ \E i \in 1..Len(ops) : ops[i].id = ret[p].value[1].id
        /\ Unfinished(p) = {}

\* createOperation on a parent operation has returned over a remote backend
\* with the new operation cached and both cache calls completed
C7_CreateOperationDone ==
    \E p \in Procs :
        /\ Returned(p, "createOperation") /\ backend = "remote"
        /\ Truthy(call[p].parentOperationId)
        /\ Unfinished(p) = {} /\ ~loc[p].failed
        /\ OPERATION(ret[p].value[1].id) \in DOMAIN store

\* the keys a write call invalidates before its transaction
KeysBefore(c) ==
    IF c.method = "createRoot" THEN {ROOT_LIST, FULL_TREE} ELSE ParentKeys(c)

\* the errors the transaction of a write call can end with
TransactionErrors(c) ==
    {"PersistenceFailure"}
    \cup (IF c.method = "createRoot"
          THEN (IF IsFinite(c.value) THEN {} ELSE {"InvalidValue"})
          ELSE IF c.parentRootId = MissingId THEN {"ParentRootNotFound"}
          ELSE IF c.parentOperationId = MissingId THEN {"ParentOperationNotFound"}
          ELSE IF c.operator = "DIVIDE" /\ IsZero(c.operand)
          THEN {"DivisionByZero"}
          ELSE {})

\* caller p has just been given the error of a transaction that failed
Failed(p) ==
    /\ pc[p] = "done" /\ ret[p].status = "error"
    /\ call[p].method \in {"createRoot", "createOperation"}
    /\ \E i \in 1..Len(log[p]) : log[p][i].ev = "tx.begin"

\* C8: when the transaction of createRoot or createOperation fails, the
\* call ends with the transaction rolled back, then one more deleteMany of
\* the keys invalidated before the transaction, and only then the caller
\* gets the error, which is the one the transaction failed with.
C8_FailureInvalidatesAgain ==
    \A p \in Procs : Failed(p) =>
        LET n == Len(log[p])
            again == EvKeys("cache.deleteMany", KeysBefore(call[p]))
        IN  /\ n >= 4
            /\ log[p][1] = again
            /\ log[p][2] = Ev("tx.begin")
            /\ log[p][n - 1] = Ev("tx.rollback")
            /\ log[p][n] = again
            /\ \A i \in 1..n : log[p][i].ev \notin {"tx.commit", "cache.set"}
            /\ ret[p].error = loc[p].error
            /\ ret[p].error \in TransactionErrors(call[p])
            /\ Unfinished(p) = {}

\* a division by zero under a parent operation has been refused
C8_DivisionByZeroRaised ==
    \E p \in Procs :
        /\ Failed(p) /\ ret[p].error = "DivisionByZero"
        /\ Truthy(call[p].parentOperationId)

\* the keys C9 names for a parent root
RootScopedKeys(rootId) == {FULL_TREE, ROOT(rootId), ROOT_OPERATIONS(rootId)}

\* caller p has just returned from a successful createOperation on a parent
\* root, and no other call is in flight
ReturnedAlone(p) ==
    /\ Returned(p, "createOperation") /\ Truthy(call[p].parentRootId)
    /\ \A q \in Procs \ {p} : pc[q] = "idle"

----------------------------------------------------------------------------
(* A reader overlapped by a write *)

\* the ids of a sequence of rows or records
IdsOf(seq) == [i \in 1..Len(seq) |-> seq[i].id]

\* caller p returns from the second query of a read that missed
ReadLoaded(p, from) == pc[p] = from /\ pc'[p] = "done" /\ ret'[p].status = "ok"

\* a read that missed writes what its first query saw
C10_Step ==
    \A p \in Procs :
        /\ ReadLoaded(p, "gft.ops") =>
              LET set == log'[p][Len(log'[p])] IN
              /\ set.ev = "cache.set" /\ set.keys = {FULL_TREE}
              /\ IdsOf(set.value) = IdsOf(loc[p].rows)
              /\ IF backend = "memory"
                 THEN store'[FULL_TREE].value = set.value
                 ELSE \E o \in inflight' \ inflight :
                        o.key = FULL_TREE /\ o.value = set.value
        /\ ReadLoaded(p, "grb.ops") =>
              LET set == log'[p][Len(log'[p])] IN
              /\ set.ev = "cache.set" /\ set.keys = {ROOT(call[p].id)}
              /\ IdsOf(set.value) = IdsOf(loc[p].rows)
              /\ IF backend = "memory"
                 THEN store'[ROOT(call[p].id)].value = set.value
                 ELSE \E o \in inflight' \ inflight :
                        o.key = ROOT(call[p].id) /\ o.value = set.value

\* C10: a getFullTree or getRootById that missed puts into the cache, when
\* its second query returns, the roots its first query read, whatever was
\* committed and invalidated in between; so a reader that read before the
\* commit of a createRoot and finishes after the last delete of that
\* createRoot leaves under FULL_TREE a forest without the committed root.
C10_ReaderCachesWhatItRead == [][C10_Step]_vars

\* both calls have finished over MemoryCache, where no cache call fails or
\* is late: the reader, overlapped by a createRoot, has left under FULL_TREE
\* a forest without the committed root
C10_StaleFullTree ==
    \E p \in Procs :
        /\ Returned(p, "getFullTree") /\ ~ret[p].hit /\ loc[p].overlapped
        /\ backend = "memory" /\ inflight = {}
        /\ \A q \in Procs \ {p} : pc[q] = "idle"
        /\ FULL_TREE \in DOMAIN store
        /\ Len(store[FULL_TREE].value) < Len(roots)
        /\ \E i \in 1..Len(roots) : ROOT(roots[i].id) \in DOMAIN store

----------------------------------------------------------------------------
(* Failed writes *)

\* the events of the calls in a log
EventsOf(l) == {l[i].ev : i \in 1..Len(l)}

\* caller p is handling, or has been given, the error of a write call
Failing(p) ==
    \/ pc[p] \in {"cr.catch", "co.catch"}
    \/ /\ pc[p] = "done" /\ ret[p].status = "error"
       /\ call[p].method \in {"createRoot", "createOperation"}

\* caller p commits its transaction in this step
Committing(p) ==
    /\ pc[p] \in {"cr.tx", "co.save"} /\ pc'[p] \in {"cr.update", "co.update"}
    /\ log'[p][Len(log'[p])] = Ev("tx.commit")

\* only a committing step changes the persisted rows; a failing call takes
\* no step that changes them and has committed nothing
C11_Step ==
    /\ (roots' # roots \/ ops' # ops) => \E p \in Procs : Committing(p)
    /\ \A p \in Procs :
          (pc'[p] # pc[p] /\ (Failing(p) \/ Failing(p)')) =>
              roots' = roots /\ ops' = ops
    /\ \A p \in Procs : Failing(p) => "tx.commit" \notin EventsOf(log[p])

\* C11: a createRoot or createOperation that fails leaves the persisted
\* roots and operations as they were: the persisted rows change only in the
\* step that commits a transaction, a call that fails has committed nothing,
\* and what it saved inside its transaction is rolled back with it.
C11_FailureLeavesRowsAlone == [][C11_Step]_vars

\* a createOperation whose saveOperation or commit failed has been given the
\* error, and the only operation persisted is the one that was there before
C11_SaveRolledBack ==
    \E p \in Procs :
        /\ Failed(p) /\ call[p].method = "createOperation"
        /\ "repo.saveOperation" \in EventsOf(log[p])
        /\ Len(ops) = 1 /\ Len(roots) = 1
        /\ \A q \in Procs \ {p} : pc[q] = "idle"

----------------------------------------------------------------------------
(* The parent references of an operation *)

\* exactly one of the two parent references is non-null
ExactlyOneParent(o) == (o.parentRootId = NullId) # (o.parentOperationId = NullId)

\* C12: every operation that createOperation has persisted, and every
\* operation a createOperation returns, has exactly one of parentRootId and
\* parentOperationId non-null.
C12_ExactlyOneParent ==
    /\ \A i \in 1..Len(ops) : ExactlyOneParent(ops[i])
    /\ \A p \in Procs : Returned(p, "createOperation") =>
          ExactlyOneParent(ret[p].value[1])

\* the call of p is a createOperation given no parent reference / given both
GivenNeither(c) ==
    c.method = "createOperation"
    /\ c.parentRootId = NullId /\ c.parentOperationId = NullId
GivenBoth(c) ==
    c.method = "createOperation"
    /\ c.parentRootId # NullId /\ c.parentOperationId # NullId

\* the call of p has failed with this error, having called neither the
\* cache nor the unit of work
FailedAtOnce(p, error) ==
    /\ pc[p] = "done" /\ ret[p].status = "error" /\ ret[p].error = error
    /\ log[p] = <<>>
    /\ Unfinished(p) = {}

\* C13: a createOperation given neither parentRootId nor parentOperationId
\* fails with MissingParent and one given both fails with AmbiguousParent,
\* in both cases before any cache operation and before any transaction.
C13_ParentValidatedUpFront ==
    \A p \in Procs :
        /\ GivenNeither(call[p]) => FailedAtOnce(p, "MissingParent")
        /\ GivenBoth(call[p]) => FailedAtOnce(p, "AmbiguousParent")

\* the parent a createOperation names is not among the persisted rows
ParentAbsent(c) ==
    IF Truthy(c.parentRootId) THEN c.parentRootId \notin RootIds
    ELSE c.parentOperationId \notin OperationIds

\* the error getParentValue raises for the parent of c
NotFoundError(c) ==
    IF Truthy(c.parentRootId) THEN "ParentRootNotFound"
    ELSE "ParentOperationNotFound"

\* caller p has finished a createOperation that went past its validation
Attempted(p) ==
    pc[p] = "done" /\ call[p].method = "createOperation" /\ log[p] # <<>>

\* C14: a createOperation whose parent does not exist when the transaction
\* reads it fails with ParentRootNotFound (root parent) or
\* ParentOperationNotFound (operation parent), unless the lookup itself
\* fails; saveOperation is not called, nothing is committed, and no
\* persisted operation names the absent parent.
C14_AbsentParentFails ==
    \A p \in Procs : Attempted(p) /\ ParentAbsent(call[p]) =>
        /\ ret[p].status = "error"
        /\ ret[p].error \in {NotFoundError(call[p]), "PersistenceFailure"}
        /\ EventsOf(log[p]) \cap {"repo.saveOperation", "tx.commit"} = {}
        /\ ret[p].error # "PersistenceFailure" =>
              log[p] = <<EvKeys("cache.deleteMany", ParentKeys(call[p])),
                         Ev("tx.begin"),
                         Ev(IF Truthy(call[p].parentRootId)
                            THEN "repo.findRootById"
                            ELSE "repo.findOperationById"),
                         Ev("tx.rollback"),
                         EvKeys("cache.deleteMany", ParentKeys(call[p]))>>
        /\ \A i \in 1..Len(ops) :
              /\ Truthy(call[p].parentRootId) =>
                    ops[i].parentRootId # call[p].parentRootId
              /\ Truthy(call[p].parentOperationId) =>
                    ops[i].parentOperationId # call[p].parentOperationId

\* a createOperation under an operation that does not exist has failed with
\* ParentOperationNotFound while other operations are persisted
C14_ParentOperationNotFoundRaised ==
    \E p \in Procs :
        /\ Attempted(p) /\ ParentAbsent(call[p])
        /\ ret[p].error = "ParentOperationNotFound"
        /\ Len(ops) >= 1

\* the call divides by zero
DividesByZero(c) ==
    c.method = "createOperation" /\ c.operator = "DIVIDE" /\ IsZero(c.operand)

\* C15: a createOperation with operator DIVIDE and operand 0 on an existing
\* parent fails with DivisionByZero (unless the parent lookup itself fails);
\* it saves and commits nothing, sets no cache entry, and no persisted
\* operation is a division by zero.
C15_DivisionByZeroFails ==
    /\ \A p \in Procs :
          Attempted(p) /\ DividesByZero(call[p]) /\ ~ParentAbsent(call[p]) =>
            /\ ret[p].status = "error"
            /\ ret[p].error \in {"DivisionByZero", "PersistenceFailure"}
            /\ EventsOf(log[p])
                  \cap {"repo.saveOperation", "tx.commit", "cache.set"} = {}
            /\ \A o \in inflight : o.p = p => o.kind # "set"
    /\ \A i \in 1..Len(ops) :
          ~(ops[i].operator = "DIVIDE" /\ IsZero(parseFloat(ops[i].operand)))

\* a division by zero under an existing root has been refused: no operation
\* is persisted and the cache holds no operation entry
C15_DivisionByZeroOnRoot ==
    \E p \in Procs :
        /\ Attempted(p) /\ DividesByZero(call[p])
        /\ call[p].parentRootId \in RootIds
        /\ ret[p].error = "DivisionByZero"
        /\ ops = <<>>
        /\ \A key \in DOMAIN store : key[1] # "calc:op"

----------------------------------------------------------------------------
(* createRoot and the value it is given *)

\* caller p has finished a createRoot
RootAttempted(p) == pc[p] = "done" /\ call[p].method = "createRoot"

\* C16: createRoot with NaN, +Infinity or -Infinity fails with InvalidValue
\* without calling saveRoot or cache.set, and no persisted root has such a
\* value; createRoot with value 0, when persistence does not fail, returns
\* a root of value 0 with no operations and totalOperationCount 0.
C16_RootValueValidated ==
    /\ \A p \in Procs : RootAttempted(p) /\ ~IsFinite(call[p].value) =>
          /\ ret[p].status = "error" /\ ret[p].error = "InvalidValue"
          /\ log[p] = <<EvKeys("cache.deleteMany", {ROOT_LIST, FULL_TREE}),
                        Ev("tx.begin"), Ev("tx.rollback"),
                        EvKeys("cache.deleteMany", {ROOT_LIST, FULL_TREE})>>
          /\ \A o \in inflight : o.p = p => o.kind # "set"
    /\ \A i \in 1..Len(roots) : IsFinite(parseFloat(roots[i].value))
    /\ \A p \in Procs : RootAttempted(p) /\ call[p].value = Fin(0) =>
          \/ ret[p].status = "error" /\ ret[p].error = "PersistenceFailure"
          \/ /\ ret[p].status = "ok"
             /\ ret[p].value[1].value = Fin(0)
             /\ ret[p].value[1].operations = <<>>
             /\ getTotalOperationCount(ret[p].value[1]) = 0
             /\ \E i \in 1..Len(roots) :
                   /\ roots[i].id = ret[p].value[1].id
                   /\ parseFloat(roots[i].value) = Fin(0)

\* createRoot of -Infinity has been refused: nothing is persisted and the
\* cache holds no root entry
C16_InfinityRefused ==
    \E p \in Procs :
        /\ RootAttempted(p) /\ call[p].value = NegInf
        /\ ret[p].error = "InvalidValue"
        /\ roots = <<>>
        /\ \A key \in DOMAIN store : key[1] # "calc:root"

----------------------------------------------------------------------------
(* getRootById of a root that is not there *)

\* caller p has finished a getRootById of an id no persisted root has
SoughtAbsent(p) ==
    /\ pc[p] = "done" /\ call[p].method = "getRootById"
    /\ call[p].id \notin RootIds

\* C17: getRootById(id), when the cache has no ROOT(id) entry and no
\* persisted root has that id, returns null after one cache.get and one
\* repository lookup, raises nothing unless the lookup itself fails, and
\* leaves no entry under ROOT(id), in the cache or on its way to it.
C17_AbsentRootIsNull ==
    \A p \in Procs : SoughtAbsent(p) =>
        /\ ROOT(call[p].id) \notin DOMAIN store
        /\ \A o \in inflight : o.key # ROOT(call[p].id)
        /\ "cache.set" \notin EventsOf(log[p])
        /\ ret[p].status = "error" => ret[p].error = "PersistenceFailure"
        /\ ret[p].status = "ok" =>
              /\ ret[p].value = <<>> /\ ~ret[p].hit
              /\ log[p] = <<EvKeys("cache.get", {ROOT(call[p].id)}),
                            Ev("repo.findRootByIdWithOperations")>>

\* getRootById of an id no root has returned null while a root is
\* persisted and cached under its own id
C17_NullReturned ==
    \E p \in Procs :
        /\ SoughtAbsent(p) /\ ret[p].status = "ok" /\ ret[p].value = <<>>
        /\ \E i \in 1..Len(roots) : ROOT(roots[i].id) \in DOMAIN store

----------------------------------------------------------------------------
(* Failing cache operations *)

\* the errors that are not failures of the cache
DomainErrors ==
    {"PersistenceFailure", "InvalidValue", "InvalidOperator", "DivisionByZero",
     "MissingParent", "AmbiguousParent", "ParentRootNotFound",
     "ParentOperationNotFound"}

\* tree is a persisted root with every persisted operation of its tree,
\* once and directly under its parent
RootIsPersisted(tree) ==
    \E r \in 1..Len(roots) :
        /\ tree.id = roots[r].id
        /\ tree.value = parseFloat(roots[r].value)
        /\ LET flat == FlatOperations(tree.operations, <<"root", tree.id>>)
               mine == {o \in 1..Len(ops) : RootOfRow(ops[o]) = roots[r].id}
           IN  /\ Len(flat) = Cardinality(mine)
               /\ \A o \in mine : \E j \in 1..Len(flat) :
                     /\ flat[j].id = ops[o].id
                     /\ flat[j].under = ParentOfRow(ops[o])

\* a read of p has returned what persistence holds
ReadIsPersisted(p) ==
    /\ call[p].method = "getFullTree" =>
          /\ Len(ret[p].value) = Len(roots)
          /\ \A i \in 1..Len(ret[p].value) : RootIsPersisted(ret[p].value[i])
    /\ call[p].method = "getRootById" =>
          IF ret[p].value = <<>> THEN call[p].id \notin RootIds
          ELSE ret[p].value[1].id = call[p].id
               /\ RootIsPersisted(ret[p].value[1])

\* a write of p has persisted the entity it returned
WriteIsPersisted(p) ==
    /\ call[p].method = "createRoot" =>
          /\ ret[p].value[1].value = call[p].value
          /\ \E i \in 1..Len(roots) :
                /\ roots[i].id = ret[p].value[1].id
                /\ parseFloat(roots[i].value) = call[p].value
    /\ call[p].method = "createOperation" =>
          \E i \in 1..Len(ops) :
              /\ ops[i].id = ret[p].value[1].id
              /\ ops[i].parentRootId = call[p].parentRootId
              /\ ops[i].parentOperationId = call[p].parentOperationId
              /\ OperatorToString(ret[p].value[1].operator) = call[p].operator
              /\ ret[p].value[1].operand = call[p].operand

\* no finished call has raised a cache error, every finished write has
\* persisted what it returned, and a transaction that failed has raised
CacheNeverInTheWay ==
    \A p \in Procs : pc[p] = "done" =>
        /\ ret[p].status = "error" => ret[p].error \in DomainErrors
        /\ "tx.rollback" \in EventsOf(log[p]) =>
              ret[p].status = "error" /\ ret[p].error = loc[p].error
        /\ (ret[p].status = "ok"
             /\ call[p].method \in {"createRoot", "createOperation"}) =>
              WriteIsPersisted(p)

\* C18 as stated: with the calls made one at a time and whichever cache
\* operations fail, no call raises a cache error, every read returns what
\* persistence holds, every write persists and returns its entity, and
\* persistence failures are raised.
C18_CacheFailuresInvisible ==
    /\ CacheNeverInTheWay
    /\ \A p \in Procs :
          (pc[p] = "done" /\ ret[p].status = "ok"
           /\ call[p].method \in {"getFullTree", "getRootById"}) =>
              ReadIsPersisted(p)

\* C18, amended: the same, where a read returns what persistence holds when
\* its cache.get fails or finds nothing; when cache.get finds an entry, the
\* read returns that entry, whatever deletes have failed before.
C18_CacheFailuresInvisibleOnMiss ==
    /\ CacheNeverInTheWay
    /\ \A p \in Procs :
          (pc[p] = "done" /\ ret[p].status = "ok"
           /\ call[p].method \in {"getFullTree", "getRootById"}) =>
              IF ret[p].hit
              THEN ret[p].value =
                     IF call[p].method = "getFullTree"
                     THEN reconstituteTrees(store[FULL_TREE].value)
                     ELSE <<reconstituteTree(store[ROOT(call[p].id)].value[1])>>
              ELSE ReadIsPersisted(p)

\* a getFullTree whose cache.get failed has returned the persisted forest
\* while the cache, after a failed delete, still holds an older one
C18_FailedGetReadsPersistence ==
    \E p \in Procs :
        /\ Returned(p, "getFullTree") /\ ~ret[p].hit /\ backend = "remote"
        /\ FULL_TREE \in DOMAIN store
        /\ Len(store[FULL_TREE].value) < Len(roots)
        /\ ~intact

----------------------------------------------------------------------------
(* The resilience wrapper keeps the failures of the wrapped cache to itself *)

\* a call of a wrapper method has ended
WrapperCalled ==
    /\ pc[WrapperCaller] = "done"
    /\ call[WrapperCaller].method \in
          {"wrapper.get", "wrapper.set", "wrapper.delete",
           "wrapper.deleteMany", "wrapper.invalidateByPrefix"}

\* the warnings the logger was given during the call
WarningsOf(l) == {i \in 1..Len(l) : l[i].ev = "logger.warn"}

\* C19: a call of ResilientCacheWrapper never ends in an error. When the
\* call it made on the wrapped cache raised, get returns null and set,
\* delete, deleteMany and invalidateByPrefix return normally, and exactly one
\* warning was logged; when the wrapped call succeeded, nothing was logged
\* and get returns the wrapped cache's result, which is what the backend
\* holds under the key (or null when it holds nothing).
C19_WrapperSwallowsFailures ==
    WrapperCalled =>
        LET p == WrapperCaller
            key == CHOOSE k \in log[p][1].keys : TRUE
        IN  /\ ret[p].status = "ok"
            /\ log[p][1].ev \notin {"logger.warn"}
            /\ loc[p].failed =>
                  /\ ret[p].value = <<>>
                  /\ ~ret[p].hit
                  /\ Cardinality(WarningsOf(log[p])) = 1
            /\ ~loc[p].failed =>
                  /\ WarningsOf(log[p]) = {}
                  /\ ret[p].value = loc[p].entity
                  /\ call[p].method = "wrapper.get" =>
                        ret[p].value = IF key \in DOMAIN store
                                       THEN <<store[key].value>> ELSE <<>>

\* a get that failed on the wrapped cache returned null although the
\* backend holds a value under the key
C19_FailedGetIsAMiss ==
    /\ WrapperCalled
    /\ call[WrapperCaller].method = "wrapper.get"
    /\ loc[WrapperCaller].failed
    /\ ret[WrapperCaller].status = "ok"
    /\ ret[WrapperCaller].value = <<>>
    /\ \E k \in log[WrapperCaller][1].keys : k \in DOMAIN store

----------------------------------------------------------------------------
(* Deleting a root deletes its tree *)

\* the operations among rows whose parent is in the set of ids above: the
\* operations directly on the root when above is the root, the children of
\* the operations in above otherwise
Under(rows, rootId, above) ==
    {rows[i].id : i \in {j \in 1..Len(rows) :
        IF Truthy(rows[j].parentRootId)
        THEN rows[j].parentRootId = rootId /\ above = {}
        ELSE rows[j].parentOperationId \in above}}

\* the operations of the tree of a root: its direct operations and every
\* descendant reached through parentOperationId
RECURSIVE Descendants(_, _, _, _)
Descendants(rows, rootId, found, n) ==
    IF n = 0 THEN found
    ELSE Descendants(rows, rootId,
                     found \cup Under(rows, rootId, {}) \cup Under(rows, rootId, found),
                     n - 1)

TreeOf(rows, rootId) == Descendants(rows, rootId, {}, Len(rows))

\* C20: a step of the persistence layer that removes a root leaves no
\* operation persisted that was in the tree of that root, neither a direct
\* operation nor a descendant reached through parentOperationId.
C20_Step ==
    \A i \in 1..Len(roots) :
        (\A j \in 1..Len(roots') : roots'[j].id # roots[i].id) =>
            \A k \in 1..Len(ops') : ops'[k].id \notin TreeOf(ops, roots[i].id)

C20_DeleteRootRemovesTree == [][C20_Step]_vars

----------------------------------------------------------------------------
(* Deleting an operation deletes its subtree *)

\* the operations among rows below the operation id: its children and every
\* deeper descendant
RECURSIVE Below(_, _, _)
Below(rows, found, n) ==
    IF n = 0 THEN found
    ELSE Below(rows,
               found \cup {rows[i].id : i \in {j \in 1..Len(rows) :
                              /\ ~Truthy(rows[j].parentRootId)
                              /\ rows[j].parentOperationId \in found}},
               n - 1)

SubtreeOf(rows, id) == Below(rows, {id}, Len(rows))

\* C21: a step of the persistence layer that removes an operation and no
\* root leaves no operation of the removed operation's subtree persisted, so
\* that no persisted operation's parentOperationId names a removed operation.
C21_Step ==
    roots' = roots =>
        \A i \in 1..Len(ops) :
            (\A j \in 1..Len(ops') : ops'[j].id # ops[i].id) =>
                \A k \in 1..Len(ops') :
                    /\ ops'[k].id \notin SubtreeOf(ops, ops[i].id)
                    /\ ops'[k].parentOperationId # ops[i].id

C21_DeleteOperationRemovesSubtree == [][C21_Step]_vars

----------------------------------------------------------------------------
(* The tree of one root is its part of the full tree *)

\* the operations reachable from a root: parentRootId is the root, or
\* parentOperationId is already in the set, expanded n times
RECURSIVE Reachable(_, _, _, _)
Reachable(rows, rootId, set, n) ==
    IF n = 0 THEN set
    ELSE Reachable(rows, rootId,
                   set \cup {rows[i].id : i \in {j \in 1..Len(rows) :
                                \/ rows[j].parentRootId = rootId
                                \/ rows[j].parentOperationId \in set}},
                   n - 1)

ReachableFrom(rows, rootId) == Reachable(rows, rootId, {}, Len(rows) + 1)

\* the caller was returned a root by findRootByIdWithOperations
FoundById ==
    /\ pc[TableCaller] = "done"
    /\ call[TableCaller].method = "repo.findRootByIdWithOperations"
    /\ ret[TableCaller].value # <<>>

\* C22: the root findRootByIdWithOperations(R) returns holds exactly the
\* operations transitively reachable from R, each once; it equals the entry
\* of R in what findAllRootsWithOperations builds from the same rows, so the
\* operations are nested the same way; and no operation reachable from
\* another root is in it.
C22_TreeOfRootIsItsEntry ==
    FoundById =>
        LET R == call[TableCaller].id
            tree == ret[TableCaller].value[1]
            flat == FlatOperations(tree.operations, <<"root", R>>)
            all == buildTrees(roots, loc[TableCaller].rows)
        IN  /\ tree.id = R
            /\ {flat[i].id : i \in 1..Len(flat)} = ReachableFrom(ops, R)
            /\ Len(flat) = Cardinality(ReachableFrom(ops, R))
            /\ \E i \in 1..Len(all) : all[i] = tree
            /\ \A i \in 1..Len(roots) : roots[i].id # R =>
                  \A j \in 1..Len(flat) :
                      flat[j].id \notin ReachableFrom(ops, roots[i].id)

\* a root returned with an operation nested under a direct operation while
\* another root has an operation of its own
C22_NestedTreeBesideAnother ==
    /\ FoundById
    /\ \E i \in 1..Len(ret[TableCaller].value[1].operations) :
          ret[TableCaller].value[1].operations[i].children # <<>>
    /\ \E i \in 1..Len(roots) :
          /\ roots[i].id # call[TableCaller].id
          /\ ReachableFrom(ops, roots[i].id) # {}

----------------------------------------------------------------------------
(* The parent references of the persisted operations form a forest *)

\* the nodes a row refers to as its parent: its non-null references
ParentRefs(row) ==
    (IF row.parentRootId # NullId THEN {<<"root", row.parentRootId>>} ELSE {})
    \cup (IF row.parentOperationId # NullId
          THEN {<<"operation", row.parentOperationId>>} ELSE {})

\* the persisted nodes
PersistedNodes ==
    {<<"root", roots[i].id>> : i \in 1..Len(roots)}
    \cup {<<"operation", ops[i].id>> : i \in 1..Len(ops)}

\* the nodes reached from a set of nodes by following parent references up
\* to n times
RECURSIVE Ancestors(_, _)
Ancestors(nodes, n) ==
    IF n = 0 THEN nodes
    ELSE Ancestors(
            nodes \cup UNION {ParentRefs(ops[i]) :
                                i \in {j \in 1..Len(ops) :
                                          <<"operation", ops[j].id>> \in nodes}},
            n - 1)

\* C23: the parent references of the persisted operations form a forest:
\* every reference of every operation names a persisted root or operation,
\* no operation is its own ancestor, and the parent references followed
\* from an operation end at exactly one root.
C23_ParentsFormForest ==
    \A i \in 1..Len(ops) :
        LET above == Ancestors(ParentRefs(ops[i]), Len(ops))
        IN  /\ ParentRefs(ops[i]) \subseteq PersistedNodes
            /\ <<"operation", ops[i].id>> \notin above
            /\ Cardinality({n \in above : n[1] = "root"}) = 1

----------------------------------------------------------------------------
(* Concurrent operations on the same parent *)

\* callers p and q are both in a createOperation on the same parent, past
\* the validation of the input
Siblings(p, q) ==
    /\ p # q
    /\ call[p].method = "createOperation" /\ call[q].method = "createOperation"
    /\ call[p].parentRootId = call[q].parentRootId
    /\ call[p].parentOperationId = call[q].parentOperationId
    /\ pc[q] \in {"co.invalidate", "co.tx", "co.save", "co.update", "co.catch"}

\* the insert and the commit of caller p succeed
SaveCommits(p) == CreateOperationSave(p) /\ pc'[p] = "co.update"

\* the row of the operation caller p has created is one the table accepts
Insertable(p) ==
    saveOperationRow([loc[p].entity[1] EXCEPT !.id = nextId]).ok

\* the persisted rows with the identifier
RowsOf(id) == {ops[i] : i \in {j \in 1..Len(ops) : ops[j].id = id}}

\* C24: a createOperation that runs while another call on the same parent
\* is under way is not held back by it: whatever the other call has done,
\* its insert and commit can succeed when the table accepts its row (no
\* lock on the parent). A createOperation that overlapped with other calls
\* and returned has its operation persisted, with the result
\* calculate(the parent's value, its own operand), whatever the other calls
\* did.
C24_SiblingsDoNotInterfere ==
    \A p \in Procs :
        /\ \A q \in Procs :
              (NoneDone /\ Siblings(p, q) /\ pc[p] = "co.save" /\ Insertable(p))
                  => ENABLED SaveCommits(p)
        /\ (Returned(p, "createOperation") /\ loc[p].overlapped) =>
              LET operation == ret[p].value[1]
                  c == calculate(OperatorFromType(call[p].operator),
                                 StoredParentValue(operation, roots, ops),
                                 call[p].operand)
              IN  /\ Cardinality(RowsOf(operation.id)) = 1
                  /\ \A row \in RowsOf(operation.id) :
                        /\ row.parentRootId = call[p].parentRootId
                        /\ row.parentOperationId = call[p].parentOperationId
                        /\ row.result = DbNumeric(c.v).v
                  /\ c.ok
                  /\ operation.result = c.v

\* a createOperation has returned while a concurrent one on the same parent
\* has committed and not yet returned; both operations are persisted
C24_BothPersisted ==
    \E p, q \in Procs :
        /\ Returned(p, "createOperation")
        /\ loc[p].overlapped
        /\ Siblings(p, q)
        /\ pc[q] = "co.update"
        /\ RowsOf(ret[p].value[1].id) # {}
        /\ RowsOf(loc[q].entity[1].id) # {}
        /\ loc[q].entity[1].id # ret[p].value[1].id

----------------------------------------------------------------------------
(* Operator.calculate and Operator.isValidWith *)

\* the call of the method on a domain object has ended
Called(method) ==
    pc[DomainCaller] = "done" /\ call[DomainCaller].method = method

\* the finite number r is exactly n / d
IsQuotient(r, n, d) == r.k = "fin" /\ r.n * d = n * r.d

\* r is what JavaScript makes of the exact value n / d (d # 0): the value
\* itself, or the infinity of its sign when it is beyond the largest number
IsNumber(r, n, d) ==
    IF Abs(n) > JsMaxValue * Abs(d)
    THEN r = InfOf(IF d < 0 THEN -n ELSE n)
    ELSE IsQuotient(r, n, d)

\* C25: calculate(a, b) is a+b for ADD, a-b for SUBTRACT, a*b for MULTIPLY
\* and a/b for DIVIDE with b # 0 (exactly so for finite a and b; NaN for a
\* NaN argument); DIVIDE with b = 0 raises DivisionByZero and returns no
\* quotient; isValidWith(b) is false for DIVIDE with b = 0 and true for
\* every other operator and operand.
C25_CalculateIsArithmetic ==
    LET c == call[DomainCaller]
        a == c.value
        b == c.operand
        r == ret[DomainCaller]
        byZero == c.operator = "DIVIDE" /\ b.k = "fin" /\ b.n = 0
    IN  /\ Called("Operator.isValidWith") => (r.value[1] <=> ~byZero)
        /\ Called("Operator.calculate") =>
              /\ byZero <=> r.status = "error"
              /\ byZero => r.error = "DivisionByZero" /\ r.value = <<>>
              /\ (~byZero /\ (a.k = "nan" \/ b.k = "nan")) => r.value[1] = NaN
              /\ (~byZero /\ a.k = "fin" /\ b.k = "fin") =>
                    CASE c.operator = "ADD" ->
                            IsNumber(r.value[1], a.n * b.d + b.n * a.d, a.d * b.d)
                      [] c.operator = "SUBTRACT" ->
                            IsNumber(r.value[1], a.n * b.d - b.n * a.d, a.d * b.d)
                      [] c.operator = "MULTIPLY" ->
                            IsNumber(r.value[1], a.n * b.n, a.d * b.d)
                      [] c.operator = "DIVIDE" ->
                            IsNumber(r.value[1], a.n * b.d, a.d * b.n)

\* a division by zero was refused
C25_DivisionByZeroRefused ==
    /\ Called("Operator.calculate")
    /\ call[DomainCaller].operator = "DIVIDE"
    /\ IsZero(call[DomainCaller].operand)
    /\ call[DomainCaller].value = Fin(3)
    /\ ret[DomainCaller].status = "error"

----------------------------------------------------------------------------
(* Operator.create *)

\* C26: Operator.create(raw) returns an operator exactly when raw is ADD,
\* SUBTRACT, MULTIPLY or DIVIDE, and the operator is raw itself; for every
\* other string it raises InvalidOperator.
C26_CreateAcceptsTheFourNames ==
    Called("Operator.create") =>
        LET raw == call[DomainCaller].operator
            r == ret[DomainCaller]
        IN  /\ r.status = "ok" <=> raw \in {"ADD", "SUBTRACT", "MULTIPLY", "DIVIDE"}
            /\ r.status = "ok" => r.value = <<raw>>
            /\ r.status # "ok" => r.status = "error" /\ r.error = "InvalidOperator"

\* the lowercase name of an operator was refused
C26_LowercaseRefused ==
    /\ Called("Operator.create")
    /\ call[DomainCaller].operator = "add"
    /\ ret[DomainCaller].status = "error"

----------------------------------------------------------------------------
(* CalculationOperation.create *)

\* C27: CalculationOperation.create raises MissingParent when neither parent
\* id is given, AmbiguousParent when both are given, DivisionByZero when
\* isValidWith(operand) is false; otherwise it returns an operation with
\* result = calculate(parentValue, operand), the given parent id set and
\* the other one null, createdAt = updatedAt and no children.
C27_CreateValidatesAndComputes ==
    Called("CalculationOperation.create") =>
        LET c == call[DomainCaller]
            r == ret[DomainCaller]
            neither == c.parentRootId = NullId /\ c.parentOperationId = NullId
            both == c.parentRootId # NullId /\ c.parentOperationId # NullId
            byZero == c.operator = "DIVIDE" /\ IsZero(c.operand)
        IN  IF neither THEN r.status = "error" /\ r.error = "MissingParent"
            ELSE IF both THEN r.status = "error" /\ r.error = "AmbiguousParent"
            ELSE IF byZero THEN r.status = "error" /\ r.error = "DivisionByZero"
            ELSE /\ r.status = "ok"
                 /\ LET o == r.value[1]
                        v == calculate(OperatorFromType(c.operator), c.value,
                                       c.operand)
                    IN  /\ v.ok /\ o.result = v.v
                        /\ o.parentRootId = c.parentRootId
                        /\ o.parentOperationId = c.parentOperationId
                        /\ (o.parentRootId = NullId) # (o.parentOperationId = NullId)
                        /\ o.operand = c.operand
                        /\ o.operator = OperatorFromType(c.operator)
                        /\ o.createdAt = o.updatedAt
                        /\ o.children = <<>>

----------------------------------------------------------------------------
(* CalculationRoot.getTotalOperationCount *)

\* the root whose operations were counted, as it was built
CountedRoot ==
    LET all == buildTrees(roots, loc[TableCaller].rows)
    IN  all[CHOOSE i \in 1..Len(all) : all[i].id = call[TableCaller].id]

\* the largest number of children of a node of the forest
RECURSIVE Branching(_)
Branching(operations) ==
    IF operations = <<>> THEN 0
    ELSE LET below == Branching(Head(operations).children)
             beside == Branching(Tail(operations))
             here == Len(operations)
         IN  IF below >= beside /\ below >= here THEN below
             ELSE IF beside >= here THEN beside ELSE here

\* C28: getTotalOperationCount of a root is the number of operations in its
\* tree, each counted once: the number of nodes the tree lists, which is the
\* number of persisted operations reachable from the root, and 0 for a root
\* with no operations.
C28_CountsEveryOperationOnce ==
    (pc[TableCaller] = "done"
     /\ call[TableCaller].method = "CalculationRoot.getTotalOperationCount") =>
        LET root == CountedRoot
            flat == FlatOperations(root.operations,
                                   <<"root", call[TableCaller].id>>)
            count == ret[TableCaller].value[1]
        IN  /\ count = Len(flat)
            /\ count = Cardinality({flat[i].id : i \in 1..Len(flat)})
            /\ count = Cardinality(ReachableFrom(ops, root.id))
            /\ root.operations = <<>> <=> count = 0

\* three operations were counted in a tree that branches below a direct
\* operation
C28_BranchingSubtreeCounted ==
    /\ pc[TableCaller] = "done"
    /\ call[TableCaller].method = "CalculationRoot.getTotalOperationCount"
    /\ ret[TableCaller].value = <<3>>
    /\ Len(CountedRoot.operations) = 1
    /\ Branching(CountedRoot.operations) = 2

----------------------------------------------------------------------------
(* MemoryCache: time to live *)

\* the call of the method on the cache has ended
MemoryCalled(method) ==
    pc[MemoryCaller] = "done" /\ call[MemoryCaller].method = method

\* the key of the call
CalledKey == CHOOSE k \in log[MemoryCaller][1].keys : TRUE

\* what the caller set under the key and has not deleted since
MadeFor(key) == {m \in inflight : m.key = key}

\* the time to live of what was set has not ended
Alive(m) == now <= m.at + CountedOn(m.ttl)

\* C29: a value set at time t with a time to live of s seconds (300 when
\* none is given) and not deleted since is returned by a get at every time
\* up to t + s, and a get after that returns null; the set that counts is
\* the last one of the key, with its own value and time. An expired entry is
\* in the Map, and counted by size(), until a get has found it expired, and
\* not after.
C29_TimeToLive ==
    /\ \A m1, m2 \in inflight : m1.key = m2.key => m1 = m2
    /\ DOMAIN store = {m.key : m \in {n \in inflight : ~n.seen}}
    /\ MemoryCalled("memory.get") =>
          /\ \A m \in MadeFor(CalledKey) :
                /\ Alive(m) => ret[MemoryCaller].value = <<m.value>>
                /\ ~Alive(m) =>
                      /\ ret[MemoryCaller].value = <<>>
                      /\ m.seen
                      /\ CalledKey \notin DOMAIN store
          /\ MadeFor(CalledKey) = {} => ret[MemoryCaller].value = <<>>
    /\ MemoryCalled("memory.size") =>
          ret[MemoryCaller].value =
              <<Cardinality({m \in inflight : ~m.seen})>>

\* size() counts an entry whose time to live has ended and that no get has
\* found yet, while a get has found another entry expired and removed it
C29_ExpiredStillCounted ==
    /\ MemoryCalled("memory.size")
    /\ ret[MemoryCaller].value = <<1>>
    /\ \E m \in inflight : ~Alive(m) /\ ~m.seen /\ m.at > 0
    /\ \E m \in inflight : m.seen

----------------------------------------------------------------------------
(* MemoryCache: what the deletions remove *)

\* the keys of the calls that start with the prefix
StartingWith(prefix) ==
    CASE prefix = "" -> {FULL_TREE, ROOT(1), ROOT_OPERATIONS(1)}
      [] prefix = "calc:" -> {FULL_TREE, ROOT(1), ROOT_OPERATIONS(1)}
      [] prefix = "calc:root" -> {ROOT(1), ROOT_OPERATIONS(1)}

\* the entries the call made in this step is to remove
Targeted ==
    LET event == log'[MemoryCaller][1]
    IN  IF call'[MemoryCaller].method = "memory.invalidateByPrefix"
        THEN StartingWith(event.value[1])
        ELSE event.keys

\* C30: a delete, deleteMany or invalidateByPrefix on MemoryCache returns
\* normally, also for absent keys and an empty list, and leaves in the Map
\* exactly the entries that were there and are not targeted (the key; the
\* listed keys; every key starting with the prefix), each unchanged.
C30_Step ==
    (/\ pc[MemoryCaller] = "idle" /\ pc'[MemoryCaller] = "done"
     /\ call'[MemoryCaller].method \in
           {"memory.delete", "memory.deleteMany", "memory.invalidateByPrefix"})
    => /\ ret'[MemoryCaller].status = "ok"
       /\ DOMAIN store' = DOMAIN store \ Targeted
       /\ \A k \in DOMAIN store' : store'[k] = store[k]

C30_DeletionsRemoveTheTargets == [][C30_Step]_vars

\* invalidateByPrefix has returned and the one entry left is the one whose
\* key does not start with the prefix
C30_OtherEntryLeft ==
    /\ MemoryCalled("memory.invalidateByPrefix")
    /\ log[MemoryCaller][1].value = <<"calc:root">>
    /\ ret[MemoryCaller].status = "ok"
    /\ DOMAIN store = {FULL_TREE}


----------------------------------------------------------------------------
(* getRootById after createOperation on an operation *)

\* the persisted operations whose parent is an operation of the tree of
\* the root
NestedUnder(rootId) ==
    {o \in 1..Len(ops) :
        /\ ~Truthy(ops[o].parentRootId)
        /\ ops[o].parentOperationId \in ReachableFrom(ops, rootId)}

\* C31: with the calls made one at a time, every cache delete so far
\* effective and no write begun over a cache write still in flight, a
\* getRootById(R) that returns a root returns a tree that contains every
\* persisted operation whose parent is an operation of R's tree; the first
\* getRootById(R) after the createOperation of such an operation is one of
\* these reads, whether or not ROOT(R) was cached before the createOperation.
C31_NestedOperationIsRead ==
    \A p \in Procs :
        Returned(p, "getRootById") /\ ret[p].value # <<>> /\ intact =>
            LET flat == FlatOperations(ret[p].value[1].operations,
                                       <<"root", ret[p].value[1].id>>)
            IN  \A o \in NestedUnder(call[p].id) :
                    \E j \in 1..Len(flat) : flat[j].id = ops[o].id


----------------------------------------------------------------------------
(* The record createRoot caches against the record persistence loads *)

\* the record a createRoot that has returned gave to cache.set
CachedByCreateRoot(p) ==
    log[p][CHOOSE i \in 1..Len(log[p]) : log[p][i].ev = "cache.set"].value

\* what findRootByIdWithOperations(id) loads from the committed rows
LoadedRoot(id) == rootWithOperations(findRootById(roots, id)[1], ops)

\* C32: with the calls made one at a time, the record a successful
\* createRoot has cached under ROOT(id) equals, field by field, the record
\* of the root findRootByIdWithOperations(id) loads from persistence once
\* the createRoot has committed.
C32_CachedRootIsLoadedRoot ==
    \A p \in Procs : Returned(p, "createRoot") =>
        CachedByCreateRoot(p) = <<RootToJSON(LoadedRoot(ret[p].value[1].id))>>


----------------------------------------------------------------------------
(* How long a read from the cache can miss a committed write *)

\* the persisted rows whose write committed more than ttl seconds ago
Settled(rows, ttl) == {i \in 1..Len(rows) : rows[i].createdAt.t + ttl < now}

\* the identifiers of the operations of a returned root
OperationsIn(root) ==
    LET flat == FlatOperations(root.operations, <<"root", root.id>>)
    IN  {flat[j].id : j \in 1..Len(flat)}

\* caller p has just been answered from the cache by a read; the read was
\* issued at the present reading of the clock
ServedFromCache(p) ==
    /\ pc[p] = "done" /\ ret[p].status = "ok" /\ ret[p].hit
    /\ call[p].method \in {"getFullTree", "getRootById"}

\* what p was returned shows every root and operation committed more than
\* TTL_FULL_TREE seconds ago (getFullTree), every operation of the root's
\* tree committed more than TTL_ROOT seconds ago (getRootById)
ReflectsSettledWrites(p) ==
    IF call[p].method = "getFullTree"
    THEN LET forest == ret[p].value IN
         /\ \A r \in Settled(roots, TTL_FULL_TREE) :
               \E i \in 1..Len(forest) : forest[i].id = roots[r].id
         /\ \A o \in Settled(ops, TTL_FULL_TREE) :
               \E i \in 1..Len(forest) : ops[o].id \in OperationsIn(forest[i])
    ELSE \A o \in Settled(ops, TTL_ROOT) :
            ops[o].id \in ReachableFrom(ops, call[p].id)
                => ops[o].id \in OperationsIn(ret[p].value[1])

----------------------------------------------------------------------------
(* The order of roots and of siblings *)

\* the caller was returned a forest by findAllRootsWithOperations
LoadedAll ==
    /\ pc[TableCaller] = "done"
    /\ call[TableCaller].method = "repo.findAllRootsWithOperations"

\* the roots of a forest come newest-created first
NewestFirst(forest) ==
    \A i \in 1..(Len(forest) - 1) :
        forest[i].createdAt.t >= forest[i + 1].createdAt.t

\* at every level under a node, siblings come in ascending creation order
RECURSIVE SiblingsAscend(_)
SiblingsAscend(operations) ==
    /\ \A i \in 1..(Len(operations) - 1) :
          operations[i].createdAt.t <= operations[i + 1].createdAt.t
    /\ \A i \in 1..Len(operations) : SiblingsAscend(operations[i].children)

InOrder(forest) ==
    /\ NewestFirst(forest)
    /\ \A i \in 1..Len(forest) : SiblingsAscend(forest[i].operations)

\* the identifiers of a returned forest, laid out as it is nested
RECURSIVE Layout(_)
Layout(nodes) ==
    [i \in 1..Len(nodes) |->
        <<nodes[i].id,
          Layout(IF "operations" \in DOMAIN nodes[i] THEN nodes[i].operations
                 ELSE nodes[i].children)>>]

\* what a getFullTree hit returns from the FULL_TREE entry that a miss
\* which loaded this forest writes
ServedFrom(kind, forest) ==
    reconstituteTrees(Stored(kind, FULL_TREE, RecordsOf(forest)))

\* C34: the forest findAllRootsWithOperations loads lists the roots
\* newest-created first and, at every level of every tree, siblings in
\* ascending creation order; the forest a getFullTree hit rebuilds from the
\* cached records of that load, on MemoryCache or on a backend that keeps
\* JSON, has its nodes in the same places, so in the same order.
C34_OrderOfTheForest ==
    LoadedAll =>
        LET forest == ret[TableCaller].value IN
        /\ InOrder(forest)
        /\ \A kind \in {"memory", "remote"} :
              /\ InOrder(ServedFrom(kind, forest))
              /\ Layout(ServedFrom(kind, forest)) = Layout(forest)

\* findAllRootsWithOperations has returned two roots, the newer one first
\* though it was inserted second, and one of them with two operations, the
\* earlier-created one first though it was inserted second
C34_OrderedAgainstInsertion ==
    /\ LoadedAll
    /\ LET forest == ret[TableCaller].value IN
       /\ Len(forest) = 2
       /\ forest[1].createdAt.t > forest[2].createdAt.t
       /\ forest[1].id > forest[2].id
       /\ \E i \in 1..2 :
             /\ Len(forest[i].operations) = 2
             /\ forest[i].operations[1].createdAt.t
                    < forest[i].operations[2].createdAt.t
             /\ forest[i].operations[1].id > forest[i].operations[2].id


----------------------------------------------------------------------------
(* transaction(fn) inside a transaction *)

\* the outermost transaction(fn) of the caller has ended
UowEnded == pc[UowCaller] = "done" /\ call[UowCaller].method = "uow.transaction"

\* the events of the caller's log with this name
Events(name) ==
    {i \in 1..Len(log[UowCaller]) : log[UowCaller][i].ev = name}

\* the rows a callback inside a callback has saved
SavedInside == {i \in 1..Len(loc[UowCaller].rows) : loc[UowCaller].rows[i].depth > 1}

\* the rows saved that are in the table
Kept ==
    {i \in 1..Len(loc[UowCaller].rows) :
        \E r \in 1..Len(roots) : roots[r] = loc[UowCaller].rows[i].row}

\* C35: when a transaction(fn) has ended during which callbacks called
\* transaction(fn) on the unit of work they were given, one database
\* transaction was begun, every row was saved through the repository of
\* that transaction, and the rows saved inside and outside the nested calls
\* are all in the table if the outer transaction committed and none of
\* them if it rolled back.
C35_NestedTransactionIsTheSame ==
    UowEnded =>
        LET tx == call[UowCaller].id IN
        /\ Cardinality(Events("tx.begin")) = 1
        /\ \A i \in Events("repo.saveRoot") : log[UowCaller][i].keys = {Tx(tx)}
        /\ Cardinality(Events("tx.commit") \cup Events("tx.rollback")) = 1
        /\ ret[UowCaller].status = "ok" =>
              Kept = 1..Len(loc[UowCaller].rows)
        /\ ret[UowCaller].status = "error" => Kept = {}

\* a transaction has rolled back after one row was saved by its callback
\* and one by the callback of a transaction(fn) inside one inside it, which
\* had returned
C35_NestedSaveRolledBack ==
    /\ UowEnded /\ ret[UowCaller].status = "error"
    /\ Cardinality(Events("uow.transaction")) = 2
    /\ \E i, j \in 1..Len(loc[UowCaller].rows) :
          loc[UowCaller].rows[i].depth = 1 /\ loc[UowCaller].rows[j].depth = 3
    /\ Len(roots) > 0


----------------------------------------------------------------------------
(* The numbers of a persisted operation *)

\* C36: every persisted operation has a finite operand and a finite
\* result: neither is NaN or an infinity.
C36_PersistedNumbersAreFinite ==
    \A i \in 1..Len(ops) :
        /\ IsFinite(parseFloat(ops[i].operand))
        /\ IsFinite(parseFloat(ops[i].result))


----------------------------------------------------------------------------
(* Tree building comes to an end *)

\* rows as createRoot and createOperation leave them: each on the root or
\* on an operation, never both, and an operation named as parent was
\* inserted before the row (it was read in the transaction that inserted
\* the row), whether or not it is still there
AsCreated(rows) ==
    \A i \in 1..Len(rows) :
        /\ Truthy(rows[i].parentRootId) # Truthy(rows[i].parentOperationId)
        /\ Truthy(rows[i].parentOperationId) =>
              rows[i].parentOperationId < rows[i].id

Filtering == pc[BuildCaller] = "fr.filter"

\* C37: the fixed-point loop of filterOperationsForRoot comes to an end on
\* every table of operation rows, whatever the parent references; on rows
\* as createRoot and createOperation leave them the whole of
\* findRootByIdWithOperations, the calls of buildChildren included, comes to
\* an end and returns the tree.
C37_TreeBuildingTerminates ==
    /\ Filtering ~> ~Filtering
    /\ (Filtering /\ AsCreated(ops))
          ~> (pc[BuildCaller] = "done" /\ ret[BuildCaller].status = "ok")

\* findRootByIdWithOperations has returned a chain of three operations on
\* rows as the calls leave them, read with each operation before its
\* parent, so that the loop needed a pass for each level
C37_ChainBuiltBackwards ==
    /\ pc[BuildCaller] = "done" /\ ret[BuildCaller].status = "ok"
    /\ AsCreated(ops)
    /\ LET rows == loc[BuildCaller].rows IN
       /\ Len(rows) = 3
       /\ rows[1].parentOperationId = rows[2].id
       /\ rows[2].parentOperationId = rows[3].id
       /\ rows[3].parentRootId = call[BuildCaller].id
    /\ LET tree == ret[BuildCaller].value[1] IN
       /\ Len(tree.operations) = 1
       /\ Len(tree.operations[1].children) = 1
       /\ Len(tree.operations[1].children[1].children) = 1

====
